---- MODULE Spec2Model ----
(***************************************************************************)
(* web-screen-stream: the session streaming plane.                         *)
(*                                                                         *)
(* Part 1 (specification Spec): one BrowserStreamSession, its encoder      *)
(* source, its broadcast task, its GOP cache and its subscribers           *)
(* (src/src/web_screen_stream/session.py, ffmpeg_source.py).               *)
(*                                                                         *)
(* Scheduling.  The program runs on one asyncio event loop, so a step of   *)
(* the model is the code a task runs between two suspensions.  The session *)
(* lock is an asyncio.Lock that no task holds across an await (the bodies  *)
(* of the four `async with self._lock` blocks of session.py contain no     *)
(* await), so acquiring it never suspends: `async with self._lock` is not  *)
(* a scheduling point, and a lock block is part of the step around it.     *)
(* The suspensions of the session plane are: the read of the encoder's     *)
(* stdout (inside `async for nal in self._ffmpeg.stream()`), `await        *)
(* queue.get()` on an empty queue, every `yield` of subscribe(), the wait  *)
(* for the encoder to exit in FFmpegSource.stop(), the spawn in            *)
(* FFmpegSource.start() and `await self._broadcast_task` in stop().        *)
(***************************************************************************)
EXTENDS Naturals, Integers, Sequences, FiniteSets, TLC

(* ------------------------------ bounds -------------------------------- *)
\* units the encoder emits in one behaviour
MaxUnits == 4
\* units the encoder emits in one behaviour of the fan-out scenario
FanUnits == 3
\* subscribe() calls in one behaviour of the fan-out scenario
MaxClients == 2
\* start() calls in one behaviour
MaxStarts == 1
\* start() calls in one behaviour of the lifecycle scenario
LifeStarts == 3
\* units the encoder emits in one behaviour of the lifecycle scenario
LifeUnits == 2
\* session.py:31 DEFAULT_QUEUE_SIZE = 200, scaled so that a queue can fill
DEFAULT_QUEUE_SIZE == 2
\* session.py:28 MAX_GOP_BYTES = 4 MiB, scaled to the unit lengths below
MAX_GOP_BYTES == 4
\* create() and stop() calls on the manager in one behaviour
MaxCalls == 3
\* session ids the calls choose from
MaxSessions == 3
\* session ids the calls choose from, except in the pool scenario
MgrSessions == 2
\* create() and stop() calls in one behaviour of the teardown scenario
TearCalls == 2
\* xvfb.py:104 max_displays = 5, scaled so that the pool can fill
max_displays == 2
\* bytes the encoder writes in one behaviour of the extractor scenario
MaxBytes == 9
\* flush() calls in one behaviour
MaxFlushes == 2
\* h264_extractor.py:35 max_buffer_bytes = 512 KiB, scaled so that a stream
\* can exceed it
max_buffer_bytes == 8
\* h264_extractor.py:36 max_nal_bytes = 4 MiB, scaled; as in the program it
\* is larger than any unit the buffer can hold
max_nal_bytes == 10
\* start() and stop() calls on the encoder source in one behaviour
SrcCalls == 4
\* children the encoder source spawns in one behaviour
MaxChildren == 2
\* units the children write in one behaviour of the generator scenario
GenWrites == 2
\* calls of start() and stop() in one behaviour of the generator scenario
GenCalls == 3
\* ffmpeg_source.py:18 READ_CHUNK_SIZE = 32 KiB, scaled below a unit
READ_CHUNK_SIZE == 3
\* calls of allocate() and release() on the pool in one behaviour
PoolCalls == 3
\* processes the pool spawns in one behaviour
MaxPids == 4
\* xvfb.py:92 _POLL_MAX_ATTEMPTS = 15, scaled
_POLL_MAX_ATTEMPTS == 2

(* ------------------------- program constants -------------------------- *)
NAL_TYPE_SPS == 7
NAL_TYPE_PPS == 8
NAL_TYPE_IDR == 5
NAL_TYPE_NON_IDR == 1
\* a type that is none of the four above (SEI)
NAL_TYPE_SEI == 6
\* xvfb.py:103 base_display
base_display == 100

Clients == 1..MaxClients

NalTypes == {NAL_TYPE_SPS, NAL_TYPE_PPS, NAL_TYPE_IDR, NAL_TYPE_NON_IDR, NAL_TYPE_SEI}

\* <<type, len(nal)>> of the units an encoder may emit: every type, short;
\* and the slices, long
ShortKinds == {<<t, 1>> : t \in NalTypes}

\* The extractor keeps at most max_buffer_bytes = 512 KiB (h264_extractor.py
\* 35, 98-103), so no unit it yields is longer: a head [SPS, PPS, IDR] is at
\* most 1.5 MiB, below MAX_GOP_BYTES, and only the slices that accumulate
\* after the IDR can take the cache over the cap.  The long slice stands for
\* such a run of slices.
LongKinds == {<<NAL_TYPE_NON_IDR, 3>>}

SliceKinds == {<<NAL_TYPE_IDR, 1>>, <<NAL_TYPE_NON_IDR, 1>>}

\* b"": the initial last_sps / last_pps, and the object _SENTINEL
Empty == [id |-> 0, type |-> 0, len |-> 0]

_SENTINEL == Empty

\* the n-th unit of the encoder's output
Unit(n, t, l) == [id |-> n, type |-> t, len |-> l]

\* H264UnitExtractor.nal_type: the low five bits of the header byte
nal_type(nal) == nal.type

VARIABLES
    status,        \* BrowserStreamSession._status
    ffRunning,     \* FFmpegSource._running
    ffProc,        \* FFmpegSource._process: "none" | "alive"
    task,          \* _broadcast_task: "none" | "running" | "cancelling" | "done"
    startPc,       \* start(): "idle" | "spawning"
    stopPc,        \* stop(): "idle" | "ffstop" | "await_task"
    emitted,       \* history: the units the broadcast loop took from the encoder
    last_sps, last_pps, gop_nals, gop_bytes, gop_has_idr,
    subscribers,   \* _subscribers: a list of queues (named by their client)
    queue,         \* queue[c]: the items of the client's asyncio.Queue
    maxsize,       \* maxsize[c]: its capacity
    sub,           \* sub[c]: the locals of the client's subscribe() generator
    received,      \* history: the units subscribe() yielded to the client
    snap,          \* history: the snapshot subscribe() enqueued
    cacheAtJoin,   \* history: gop_nals when subscribe() registered
    idrAtJoin,     \* history: gop_has_idr when subscribe() registered
    joinAt,        \* history: Len(emitted) when subscribe() registered
    dropped,       \* history: a unit was dropped for the client (QueueFull)
    regAtStop,     \* history: the client was registered when stop() notified
    starts,        \* history: the number of start() calls
    stopFrom,      \* history: the status the last stop() call found
    stopRet,       \* history: `starts` when the last stop() returned
    runAt,         \* history: the units emitted before the current encoder run
    scn            \* the scenario explored (constant): see Scenario

streamVars == <<status, ffRunning, ffProc, task, startPc, stopPc, emitted,
                last_sps, last_pps, gop_nals, gop_bytes, gop_has_idr,
                subscribers, queue, maxsize, sub, received, snap, cacheAtJoin,
                idrAtJoin, joinAt, dropped, regAtStop, starts, stopFrom,
                stopRet, runAt, scn>>

VARIABLES
    _sessions,     \* SessionManager._sessions: session_id -> session
    _browsers,     \* SessionManager._browsers: session_id -> browser tuple
    _displays,     \* SessionManager._displays: session_id -> display
    xvfb_displays, \* XvfbManager._displays: display -> the call that made it
    mgr_lock,      \* SessionManager._lock: 0, or the call that holds it
    xvfb_lock,     \* XvfbManager._lock: 0, or the call that holds it
    call,          \* call[p]: the locals and the position of a manager call
    _xvfb,         \* SessionManager._xvfb is set (constant)
    playwright_ok, \* the playwright import succeeds (constant)
    env            \* the environment explored (constant): see Environment

mgrVars == <<_sessions, _browsers, _displays, xvfb_displays, mgr_lock,
             xvfb_lock, call, _xvfb, playwright_ok, env>>

VARIABLES
    _buf,          \* H264UnitExtractor._buf: the bytes retained
    _max,          \* H264UnitExtractor._max: the buffer cap (constant)
    pushed,        \* history: the bytes given to push() so far, in order
    results,       \* history: the results of all calls, concatenated
    ret,           \* history: the result of the last call
    tail,          \* history: _buf before the last call
    last_op,       \* history: the last call: "none" | "push" | "flush"
    flushes,       \* history: the number of flush() calls
    pushes,        \* history: the number of push() calls
    config,        \* the StreamConfig object that was built last
    kwargs         \* history: the keyword arguments it was built with

extVars == <<_buf, _max, pushed, results, ret, tail, last_op, flushes,
             pushes>>

cfgVars == <<config, kwargs>>

VARIABLES
    _running,      \* FFmpegSource._running
    _process,      \* FFmpegSource._process: 0, or the child it refers to
    child,         \* child[n]: "unborn" | "alive" | "exited"
    signals,       \* history: the signals sent to each child, in order
    src            \* src[p]: the locals and the position of a call on the
                   \* source

srcVars == <<_running, _process, child, signals, src>>

VARIABLES
    pipe,          \* pipe[n]: the bytes child n wrote that were not read
    written,       \* history: the number of units the children wrote
    gen            \* the locals and the position of the generator stream()

genVars == <<pipe, written, gen>>

VARIABLES
    pool_displays, \* XvfbManager._displays: number -> <<Xvfb pid, fluxbox pid>>
    pool_lock,     \* XvfbManager._lock: the call that holds it, or 0
    proc,          \* the processes the pool has spawned
    lock_file,     \* /tmp/.X<n>-lock: the PID it names, or 0 for no file
    pcall          \* the calls of allocate() and release()

poolVars == <<pool_displays, pool_lock, proc, lock_file, pcall>>

libVars == <<extVars, cfgVars, srcVars, genVars, poolVars>>

vars == <<streamVars, mgrVars, libVars>>

(* ------------------------------ helpers ------------------------------- *)
Range(s) == {s[i] : i \in 1..Len(s)}

RECURSIVE RemoveFirst(_, _)
\* list.remove(x)
RemoveFirst(s, x) ==
    IF s = <<>> THEN <<>>
    ELSE IF Head(s) = x THEN Tail(s)
    ELSE <<Head(s)>> \o RemoveFirst(Tail(s), x)

IsPrefix(s, t) == Len(s) <= Len(t) /\ SubSeq(t, 1, Len(s)) = s

RECURSIVE Filter(_, _)
Filter(s, T) ==
    IF s = <<>> THEN <<>>
    ELSE IF Head(s).type \in T THEN <<Head(s)>> \o Filter(Tail(s), T)
    ELSE Filter(Tail(s), T)

(* --------------------------- initial state ---------------------------- *)
InitLocals == [pc |-> "idle", got_idr |-> FALSE, sent_sps |-> FALSE,
               sent_pps |-> FALSE, nal |-> Empty]

StreamInit ==
    /\ status = "created"
    /\ ffRunning = FALSE
    /\ ffProc = "none"
    /\ task = "none"
    /\ startPc = "idle"
    /\ stopPc = "idle"
    /\ emitted = <<>>
    /\ last_sps = Empty
    /\ last_pps = Empty
    /\ gop_nals = <<>>
    /\ gop_bytes = 0
    /\ gop_has_idr = FALSE
    /\ subscribers = <<>>
    /\ queue = [c \in Clients |-> <<>>]
    /\ maxsize = [c \in Clients |-> 0]
    /\ sub = [c \in Clients |-> InitLocals]
    /\ received = [c \in Clients |-> <<>>]
    /\ snap = [c \in Clients |-> <<>>]
    /\ cacheAtJoin = [c \in Clients |-> <<>>]
    /\ idrAtJoin = [c \in Clients |-> FALSE]
    /\ joinAt = [c \in Clients |-> 0]
    /\ dropped = [c \in Clients |-> FALSE]
    /\ regAtStop = [c \in Clients |-> FALSE]
    /\ starts = 0
    /\ stopFrom = "none"
    /\ stopRet = -1
    /\ runAt = 0

(* ------------------ session.py: the late-join cache ------------------- *)
Cache == [last_sps |-> last_sps, last_pps |-> last_pps, gop_nals |-> gop_nals,
          gop_bytes |-> gop_bytes, gop_has_idr |-> gop_has_idr]

\* the new IDR is appended to the cached GOP instead of replacing it
NewGop_append(k, nal) ==
    [k EXCEPT !.gop_nals = @ \o <<nal>>, !.gop_bytes = @ + nal.len,
              !.gop_has_idr = TRUE]

\* _update_gop_cache, the IDR branch (session.py 246-263)
NewGop(k, nal) ==
    LET withSps == IF k.last_sps # Empty THEN <<k.last_sps>> ELSE <<>>
        withPps == IF k.last_pps # Empty THEN withSps \o <<k.last_pps>> ELSE withSps
        bytes == (IF k.last_sps # Empty THEN k.last_sps.len ELSE 0)
                 + (IF k.last_pps # Empty THEN k.last_pps.len ELSE 0)
    IN  [k EXCEPT !.gop_nals = withPps \o <<nal>>,
                  !.gop_bytes = bytes + nal.len,
                  !.gop_has_idr = TRUE]

\* mutant of AppendSlice: the clear forgets to reset gop_has_idr
AppendSlice_keepflag(k, nal) ==
    IF ~k.gop_has_idr THEN k
    ELSE LET a == [k EXCEPT !.gop_nals = Append(@, nal), !.gop_bytes = @ + nal.len]
         IN  IF a.gop_bytes > MAX_GOP_BYTES
             THEN [a EXCEPT !.gop_nals = <<>>, !.gop_bytes = 0]
             ELSE a

\* the cap is never enforced
AppendSlice_noclear(k, nal) ==
    IF ~k.gop_has_idr THEN k
    ELSE [k EXCEPT !.gop_nals = Append(@, nal), !.gop_bytes = @ + nal.len]

\* _update_gop_cache, the non-IDR branch (session.py 265-278): append, then
\* clear the cache when the running total exceeds the cap
AppendSlice(k, nal) ==
    IF ~k.gop_has_idr THEN k
    ELSE LET a == [k EXCEPT !.gop_nals = Append(@, nal), !.gop_bytes = @ + nal.len]
         IN  IF a.gop_bytes > MAX_GOP_BYTES
             THEN [a EXCEPT !.gop_nals = <<>>, !.gop_bytes = 0, !.gop_has_idr = FALSE]
             ELSE a

\* every unit that is no parameter set and no IDR is appended to the GOP
update_gop_cache_any(k, nal) ==
    IF nal_type(nal) = NAL_TYPE_SPS THEN [k EXCEPT !.last_sps = nal]
    ELSE IF nal_type(nal) = NAL_TYPE_PPS THEN [k EXCEPT !.last_pps = nal]
    ELSE IF nal_type(nal) = NAL_TYPE_IDR THEN NewGop(k, nal)
    ELSE [k EXCEPT !.gop_nals = Append(@, nal), !.gop_bytes = @ + nal.len]

\* _update_gop_cache (session.py 228-278)
update_gop_cache(k, nal) ==
    IF nal_type(nal) = NAL_TYPE_SPS THEN [k EXCEPT !.last_sps = nal]
    ELSE IF nal_type(nal) = NAL_TYPE_PPS THEN [k EXCEPT !.last_pps = nal]
    ELSE IF nal_type(nal) = NAL_TYPE_IDR THEN NewGop(k, nal)
    ELSE IF nal_type(nal) = NAL_TYPE_NON_IDR THEN AppendSlice(k, nal)
    ELSE k

(* ---------------- session.py: the subscriber queues ------------------- *)
\* asyncio.Queue.put_nowait under `except asyncio.QueueFull: pass`
put_nowait(q, cap, nal) == IF Len(q) >= cap THEN q ELSE Append(q, nal)

RECURSIVE PutAll_stop(_, _, _)
\* mutant of PutAll: QueueFull is not caught and ends the loop over the queues
PutAll_stop(subs, qs, nal) ==
    IF subs = <<>> THEN qs
    ELSE IF Len(qs[Head(subs)]) >= maxsize[Head(subs)] THEN qs
    ELSE PutAll_stop(Tail(subs), [qs EXCEPT ![Head(subs)] = Append(@, nal)], nal)

RECURSIVE PutAll(_, _, _)
\* _run_broadcast: `for queue in subscribers: queue.put_nowait(nal)` (289-293)
PutAll(subs, qs, nal) ==
    IF subs = <<>> THEN qs
    ELSE PutAll(Tail(subs),
                [qs EXCEPT ![Head(subs)] = put_nowait(@, maxsize[Head(subs)], nal)],
                nal)

RECURSIVE MarkDropped(_, _)
\* history: the subscribers whose queue was full when the unit was offered
MarkDropped(subs, d) ==
    IF subs = <<>> THEN d
    ELSE MarkDropped(Tail(subs),
                     [d EXCEPT ![Head(subs)] =
                         @ \/ Len(queue[Head(subs)]) >= maxsize[Head(subs)]])

\* one iteration of the loop of _run_broadcast (session.py 283-293) on unit nal
BroadcastUnit(nal) ==
    LET k == update_gop_cache(Cache, nal) IN
    /\ emitted' = Append(emitted, nal)
    /\ last_sps' = k.last_sps
    /\ last_pps' = k.last_pps
    /\ gop_nals' = k.gop_nals
    /\ gop_bytes' = k.gop_bytes
    /\ gop_has_idr' = k.gop_has_idr
    /\ queue' = PutAll(subscribers, queue, nal)
    /\ dropped' = MarkDropped(subscribers, dropped)

NoBroadcast ==
    UNCHANGED <<emitted, last_sps, last_pps, gop_nals, gop_bytes, gop_has_idr,
                queue, dropped>>

\* the units the encoder may emit next
NextUnits ==
    IF Len(emitted) >= scn.units THEN {}
    ELSE {Unit(Len(emitted) + 1, k[1], k[2]) : k \in scn.kinds}

(* -------------------- session.py: subscribe() ------------------------- *)
\* mutant of SnapshotOf: the snapshot misses the head of the cached GOP
SnapshotOf_tail(k) == IF k.gop_has_idr THEN Tail(k.gop_nals) ELSE <<>>

\* subscribe(), the first lock block (session.py 160-173): the snapshot
SnapshotOf(k) == IF k.gop_has_idr THEN k.gop_nals ELSE <<>>

\* the capacity does not grow with the snapshot
QueueSizeFor_default(snapshot) == DEFAULT_QUEUE_SIZE

\* session.py 166: qsize
QueueSizeFor(snapshot) ==
    IF DEFAULT_QUEUE_SIZE >= Len(snapshot) + DEFAULT_QUEUE_SIZE
    THEN DEFAULT_QUEUE_SIZE
    ELSE Len(snapshot) + DEFAULT_QUEUE_SIZE

RECURSIVE Prefill(_, _, _)
\* session.py 170-171: `for nal in gop_snapshot: queue.put_nowait(nal)`
Prefill(q, cap, snapshot) ==
    IF snapshot = <<>> THEN q
    ELSE Prefill(Append(q, Head(snapshot)), cap, Tail(snapshot))

\* mutant of LocalsFor: sync-up mode is never entered
LocalsFor_gotidr(has_idr) ==
    [pc |-> "get", got_idr |-> TRUE, sent_sps |-> has_idr,
     sent_pps |-> has_idr, nal |-> Empty]

\* session.py 184-186: got_idr, sent_sps, sent_pps
LocalsFor(has_idr) ==
    [pc |-> "get", got_idr |-> has_idr, sent_sps |-> has_idr,
     sent_pps |-> has_idr, nal |-> Empty]

\* subscribe() up to its first `await queue.get()` (session.py 160-186); a
\* put_nowait of the snapshot on a full queue raises QueueFull, which leaves
\* subscribe() before it registers
Subscribe(c) ==
    /\ c \in scn.clients
    /\ sub[c].pc = "idle"
    /\ LET has_idr == gop_has_idr
           gop_snapshot == SnapshotOf(Cache)
           qsize == QueueSizeFor(gop_snapshot)
       IN  /\ snap' = [snap EXCEPT ![c] = gop_snapshot]
           /\ cacheAtJoin' = [cacheAtJoin EXCEPT ![c] = gop_nals]
           /\ idrAtJoin' = [idrAtJoin EXCEPT ![c] = gop_has_idr]
           /\ joinAt' = [joinAt EXCEPT ![c] = Len(emitted)]
           /\ maxsize' = [maxsize EXCEPT ![c] = qsize]
           /\ IF Len(gop_snapshot) > qsize
              THEN /\ sub' = [sub EXCEPT ![c].pc = "done"]
                   /\ UNCHANGED <<queue, subscribers>>
              ELSE /\ queue' = [queue EXCEPT ![c] = Prefill(<<>>, qsize, gop_snapshot)]
                   /\ subscribers' = Append(subscribers, c)
                   /\ sub' = [sub EXCEPT ![c] = LocalsFor(has_idr)]
    /\ UNCHANGED <<status, ffRunning, ffProc, task, startPc, stopPc, emitted,
                   last_sps, last_pps, gop_nals, gop_bytes, gop_has_idr,
                   received, dropped, regAtStop>>
    /\ UNCHANGED <<starts, scn, runAt, stopFrom, stopRet, mgrVars, libVars>>

\* the generator suspended at a `yield` (or left): what it yielded, where it
\* resumes
Suspended(q, loc, out, pc, nal) ==
    [q |-> q,
     loc |-> [loc EXCEPT !.pc = pc, !.nal = nal],
     out |-> out]

\* session.py 211-217: after the SPS of the IDR branch
AfterSps(q, loc, nal) ==
    IF ~loc.sent_pps /\ last_pps # Empty
    THEN Suspended(q, [loc EXCEPT !.sent_pps = TRUE], <<last_pps>>, "inj_nal", nal)
    ELSE Suspended(q, loc, <<nal>>, "get", Empty)

\* mutant of FirstIdr: the IDR is forwarded without the parameter sets
FirstIdr_noinject(q, loc, nal) ==
    Suspended(q, [loc EXCEPT !.got_idr = TRUE], <<nal>>, "get", Empty)

\* session.py 205-217: the IDR that ends sync-up mode
FirstIdr(q, loc, nal) ==
    LET l == [loc EXCEPT !.got_idr = TRUE] IN
    IF ~l.sent_sps /\ last_sps # Empty
    THEN Suspended(q, [l EXCEPT !.sent_sps = TRUE], <<last_sps>>, "inj_pps", nal)
    ELSE AfterSps(q, l, nal)

RECURSIVE Deliver(_, _)
\* the delivery loop (session.py 189-217) from `await queue.get()` to its next
\* suspension: a yield, the empty queue, or the sentinel
Deliver(q, loc) ==
    IF q = <<>> THEN Suspended(q, loc, <<>>, "get", Empty)
    ELSE LET nal == Head(q)
             rest == Tail(q)
         IN  IF nal = _SENTINEL THEN Suspended(rest, loc, <<>>, "exit", Empty)
             ELSE IF loc.got_idr THEN Suspended(rest, loc, <<nal>>, "get", Empty)
             ELSE IF nal_type(nal) = NAL_TYPE_SPS
                  THEN IF ~loc.sent_sps
                       THEN Suspended(rest, [loc EXCEPT !.sent_sps = TRUE], <<nal>>, "get", Empty)
                       ELSE Deliver(rest, loc)
             ELSE IF nal_type(nal) = NAL_TYPE_PPS
                  THEN IF ~loc.sent_pps
                       THEN Suspended(rest, [loc EXCEPT !.sent_pps = TRUE], <<nal>>, "get", Empty)
                       ELSE Deliver(rest, loc)
             ELSE IF nal_type(nal) = NAL_TYPE_IDR THEN FirstIdr(rest, loc, nal)
             ELSE Deliver(rest, loc)

\* mutant of Finally: the queue is left in the subscriber list
Finally_keep(subs, c) == subs

\* subscribe(), the finally block (session.py 218-226)
Finally(subs, c) == IF c \in Range(subs) THEN RemoveFirst(subs, c) ELSE subs

\* the generator runs from where it is suspended to its next suspension
Resume(c) ==
    IF sub[c].pc = "get" THEN Deliver(queue[c], sub[c])
    ELSE IF sub[c].pc = "inj_pps" THEN AfterSps(queue[c], sub[c], sub[c].nal)
    ELSE Suspended(queue[c], sub[c], <<sub[c].nal>>, "get", Empty)

\* the client asks for the next unit (__anext__), or a put wakes queue.get()
Receive(c) ==
    /\ \/ sub[c].pc = "get" /\ queue[c] # <<>>
       \/ sub[c].pc \in {"inj_pps", "inj_nal"}
    /\ LET r == Resume(c) IN
       /\ queue' = [queue EXCEPT ![c] = r.q]
       /\ received' = [received EXCEPT ![c] = @ \o r.out]
       /\ IF r.loc.pc = "exit"
          THEN /\ sub' = [sub EXCEPT ![c] = [r.loc EXCEPT !.pc = "done"]]
               /\ subscribers' = Finally(subscribers, c)
          ELSE /\ sub' = [sub EXCEPT ![c] = r.loc]
               /\ UNCHANGED subscribers
    /\ UNCHANGED <<status, ffRunning, ffProc, task, startPc, stopPc, emitted,
                   last_sps, last_pps, gop_nals, gop_bytes, gop_has_idr,
                   maxsize, snap, cacheAtJoin, idrAtJoin, joinAt, dropped, regAtStop>>
    /\ UNCHANGED <<starts, scn, runAt, stopFrom, stopRet, mgrVars, libVars>>

\* the client closes or drops the iterator, or its task is cancelled: the
\* exception is raised at the suspension and the finally block runs
Abandon(c) ==
    /\ sub[c].pc \in {"get", "inj_pps", "inj_nal"}
    /\ sub' = [sub EXCEPT ![c].pc = "done"]
    /\ subscribers' = Finally(subscribers, c)
    /\ UNCHANGED <<status, ffRunning, ffProc, task, startPc, stopPc, emitted,
                   last_sps, last_pps, gop_nals, gop_bytes, gop_has_idr,
                   queue, maxsize, received, snap, cacheAtJoin, idrAtJoin, joinAt, dropped, regAtStop>>
    /\ UNCHANGED <<starts, scn, runAt, stopFrom, stopRet, mgrVars, libVars>>

(* -------------- session.py: start(), stop(), the task ----------------- *)
\* stop(), the last lock block (session.py 138-146): the sentinel to every
\* subscriber, QueueFull swallowed; the subscriber list cleared
Notify ==
    /\ queue' = PutAll(subscribers, queue, _SENTINEL)
    /\ regAtStop' = [c \in Clients |-> regAtStop[c] \/ c \in Range(subscribers)]
    /\ subscribers' = <<>>
    /\ status' = "stopped"
    /\ stopPc' = "idle"
    /\ stopRet' = starts

\* the broadcast task is neither cancelled nor awaited
AfterFfStop_nowait ==
    /\ Notify
    /\ UNCHANGED task

\* stop() after `await self._ffmpeg.stop()` (session.py 130-146): cancel a
\* broadcast task that is not done and wait for it, else notify at once
AfterFfStop ==
    IF task = "running"
    THEN /\ task' = "cancelling"
         /\ stopPc' = "await_task"
         /\ UNCHANGED <<queue, regAtStop, subscribers, status, stopRet>>
    ELSE /\ Notify
         /\ UNCHANGED task

\* start() up to the spawn of the encoder (session.py 103-111,
\* ffmpeg_source.py 76-86); FFmpegSource.start raises when already running
StartCall ==
    /\ startPc = "idle"
    /\ status \in {"created", "stopped"}
    /\ starts < scn.starts
    /\ starts' = starts + 1
    /\ status' = "starting"
    /\ startPc' = IF ffRunning THEN "idle" ELSE "spawning"
    /\ UNCHANGED <<ffRunning, ffProc, task, stopPc, emitted, last_sps, last_pps,
                   gop_nals, gop_bytes, gop_has_idr, subscribers, queue, maxsize,
                   sub, received, snap, cacheAtJoin, idrAtJoin, joinAt, dropped, regAtStop>>
    /\ UNCHANGED <<scn, runAt, stopFrom, stopRet, mgrVars, libVars>>

\* start() in a state other than created or stopped raises RuntimeError
\* before it assigns anything (session.py 105-106)
StartRejected ==
    /\ status \notin {"created", "stopped"}
    /\ starts < scn.starts
    /\ starts' = starts + 1
    /\ UNCHANGED <<status, ffRunning, ffProc, task, startPc, stopPc, emitted,
                   last_sps, last_pps, gop_nals, gop_bytes, gop_has_idr,
                   subscribers, queue, maxsize, sub, received, snap,
                   cacheAtJoin, idrAtJoin, joinAt, dropped, regAtStop>>
    /\ UNCHANGED <<scn, runAt, stopFrom, stopRet, mgrVars, libVars>>

\* the encoder is spawned (ffmpeg_source.py 82-91) and start() creates the
\* broadcast task (session.py 112-116)
StartSpawned ==
    /\ startPc = "spawning"
    /\ startPc' = "idle"
    /\ ffProc' = "alive"
    /\ ffRunning' = TRUE
    /\ task' = "running"
    /\ status' = "streaming"
    /\ UNCHANGED <<stopPc, emitted, last_sps, last_pps, gop_nals, gop_bytes,
                   gop_has_idr, subscribers, queue, maxsize, sub, received, snap,
                   cacheAtJoin, idrAtJoin, joinAt, dropped, regAtStop>>
    /\ UNCHANGED <<starts, scn, stopFrom, stopRet, mgrVars, libVars>>
    /\ runAt' = Len(emitted)

\* create_subprocess_exec raises: start() propagates it (session.py 111)
StartFailed ==
    /\ startPc = "spawning"
    /\ startPc' = "idle"
    /\ UNCHANGED <<status, ffRunning, ffProc, task, stopPc, emitted, last_sps,
                   last_pps, gop_nals, gop_bytes, gop_has_idr, subscribers, queue,
                   maxsize, sub, received, snap, cacheAtJoin, idrAtJoin, joinAt, dropped, regAtStop>>
    /\ UNCHANGED <<starts, scn, runAt, stopFrom, stopRet, mgrVars, libVars>>

\* the broadcast loop takes the next unit from the encoder (session.py 283-293)
Broadcast ==
    /\ task = "running"
    /\ \E u \in NextUnits : BroadcastUnit(u)
    /\ UNCHANGED <<status, ffRunning, ffProc, task, startPc, stopPc, subscribers,
                   maxsize, sub, received, snap, cacheAtJoin, idrAtJoin, joinAt, regAtStop>>
    /\ UNCHANGED <<starts, scn, runAt, stopFrom, stopRet, mgrVars, libVars>>

\* stream() ends: stdout at end-of-file, or _running false (ffmpeg_source.py
\* 115-119); the loop of _run_broadcast ends (session.py 299-300)
TaskEnd ==
    /\ task = "running"
    /\ task' = "done"
    /\ NoBroadcast
    /\ UNCHANGED <<status, ffRunning, ffProc, startPc, stopPc, subscribers,
                   maxsize, sub, received, snap, cacheAtJoin, idrAtJoin, joinAt, regAtStop>>
    /\ UNCHANGED <<starts, scn, runAt, stopFrom, stopRet, mgrVars, libVars>>

\* the cancelled task: CancelledError is raised at the read of stdout, the
\* finally block of stream() flushes the extractor and may yield its tail as
\* one last unit (ffmpeg_source.py 124-128), which the loop still broadcasts
TaskCancelled ==
    /\ task = "cancelling"
    /\ task' = "done"
    /\ \/ \E u \in NextUnits : BroadcastUnit(u)
       \/ NoBroadcast
    /\ UNCHANGED <<status, ffRunning, ffProc, startPc, stopPc, subscribers,
                   maxsize, sub, received, snap, cacheAtJoin, idrAtJoin, joinAt, regAtStop>>
    /\ UNCHANGED <<starts, scn, runAt, stopFrom, stopRet, mgrVars, libVars>>

\* stop() up to its first suspension (session.py 118-127, ffmpeg_source.py
\* 130-143): with no encoder process FFmpegSource.stop returns at once
StopCall ==
    /\ stopPc = "idle"
    /\ status \notin {"stopped", "stopping"}
    /\ ffRunning' = FALSE
    /\ stopFrom' = status
    /\ IF ffProc = "alive"
       THEN /\ status' = "stopping"
            /\ stopPc' = "ffstop"
            /\ UNCHANGED <<task, queue, regAtStop, subscribers, stopRet>>
       ELSE AfterFfStop
    /\ UNCHANGED <<ffProc, startPc, emitted, last_sps, last_pps, gop_nals,
                   gop_bytes, gop_has_idr, maxsize, sub, received, snap, cacheAtJoin, idrAtJoin, joinAt,
                   dropped>>
    /\ UNCHANGED <<starts, scn, runAt, mgrVars, libVars>>

\* the encoder has exited (ffmpeg_source.py 143-153); stop() goes on
StopFfExited ==
    /\ stopPc = "ffstop"
    /\ ffProc' = "none"
    /\ AfterFfStop
    /\ UNCHANGED <<ffRunning, startPc, emitted, last_sps, last_pps, gop_nals,
                   gop_bytes, gop_has_idr, maxsize, sub, received, snap, cacheAtJoin, idrAtJoin, joinAt,
                   dropped>>
    /\ UNCHANGED <<starts, scn, runAt, stopFrom, mgrVars, libVars>>

\* `await self._broadcast_task` returns (session.py 133-146)
StopNotify ==
    /\ stopPc = "await_task"
    /\ task = "done"
    /\ Notify
    /\ UNCHANGED <<ffRunning, ffProc, task, startPc, emitted, last_sps, last_pps,
                   gop_nals, gop_bytes, gop_has_idr, maxsize, sub, received, snap,
                   cacheAtJoin, idrAtJoin, joinAt, dropped>>
    /\ UNCHANGED <<starts, scn, runAt, stopFrom, mgrVars, libVars>>

(* ------------- session.py: SessionManager; xvfb.py: the pool ---------- *)
(* Part 2 (specification SpecMgr): one SessionManager with its three maps *)
(* and the XvfbManager's table of displays.  The manager lock IS held     *)
(* across awaits (the whole body of create() runs under it), so it is a   *)
(* variable; so is the pool lock, which allocate() holds while Xvfb and   *)
(* Fluxbox start.  A map is a function that is 0 where the dict has no    *)
(* key; a session object or a browser tuple is named by the call that     *)
(* made it.                                                               *)

Procs == 1..MaxCalls
SessionIds == 1..MaxSessions
\* XvfbManager._next_display_num ranges over base .. base + max - 1
DisplayNums == base_display..(base_display + max_displays - 1)

\* the locals of a call that has not started
IdleCall ==
    [op |-> "none", pc |-> "idle", sid |-> 0, url |-> FALSE,
     display |-> 0, pw |-> FALSE, browser |-> FALSE,
     session |-> 0, browser_info |-> 0,
     num |-> 0, err |-> "", raised |-> "", steps |-> <<>>, failed |-> {},
     lock |-> "none", unlinked |-> FALSE, spawned |-> FALSE,
     pwStarted |-> FALSE, brLaunched |-> FALSE, before |-> {}, gone |-> {}]

\* SessionManager.__init__ and XvfbManager.__init__
MgrInit ==
    /\ _sessions = [s \in SessionIds |-> 0]
    /\ _browsers = [s \in SessionIds |-> 0]
    /\ _displays = [s \in SessionIds |-> 0]
    /\ xvfb_displays = [n \in DisplayNums |-> 0]
    /\ mgr_lock = 0
    /\ xvfb_lock = 0
    /\ call = [p \in Procs |-> IdleCall]

\* the keys of XvfbManager._displays
ActiveDisplays == {n \in DisplayNums : xvfb_displays[n] # 0}

\* XvfbManager.active_count
active_count == Cardinality(ActiveDisplays)

\* the largest free number is chosen
next_display_num_last ==
    CHOOSE n \in DisplayNums :
        /\ n \notin ActiveDisplays
        /\ \A m \in DisplayNums : m > n => m \in ActiveDisplays

\* XvfbManager._next_display_num: the first number that is not in use
next_display_num ==
    CHOOSE n \in DisplayNums :
        /\ n \notin ActiveDisplays
        /\ \A m \in DisplayNums : m < n => m \in ActiveDisplays

\* a compensating or teardown step that was attempted, whatever its outcome
Log(c, step) == [c EXCEPT !.steps = Append(@, step)]

\* after a step has raised, the later steps are not attempted
Try_once(c, step, ok) ==
    IF c.failed # {} THEN c
    ELSE IF ok THEN Log(c, step)
    ELSE [Log(c, step) EXCEPT !.failed = @ \cup {step}]

\* a step in its own try/except: it is attempted, and when it raises the
\* exception is logged and swallowed
Try(c, step, ok) ==
    IF ok THEN Log(c, step)
    ELSE [Log(c, step) EXCEPT !.failed = @ \cup {step}]

\* what _cleanup_stale_lock can find for a display number: no lock file, a
\* lock file whose PID is not alive (or unreadable), one whose PID is alive
LockStates == {"none", "stale", "alive"}

\* _cleanup_stale_lock: the files are unlinked only for a stale lock; a lock
\* whose PID is alive is logged and left; the function returns in every
\* case and allocate() goes on to spawn Xvfb
cleanup_stale_lock(c, lf) ==
    [c EXCEPT !.lock = lf, !.unlinked = (lf = "stale")]

\* an exception leaves a phase of create(): the handler takes over
Fail(c, e) == [c EXCEPT !.err = e, !.pc = "rollback"]

\* the duplicate check never fires
contains_never(m, sid) == FALSE

\* `session_id in self._sessions`
contains(m, sid) == m[sid] # 0

\* the entry is read and left in the dict
pop_keep(m, sid) == m

\* dict.pop(session_id, None): the dict without the key
pop(m, sid) == [m EXCEPT ![sid] = 0]

\* the not-found check fires for every session
missing_always(session) == TRUE

\* `if session is None`
missing(session) == session = 0

\* create(): the lock is taken, the duplicate check, the three locals
Create(p, sid, url) ==
    /\ p \in env.procs /\ sid \in env.sids
    /\ call[p].op = "none"
    /\ mgr_lock = 0
    /\ IF contains(_sessions, sid)
       THEN /\ call' = [call EXCEPT ![p] =
                   [IdleCall EXCEPT !.op = "create", !.pc = "raised",
                                    !.sid = sid, !.url = url,
                                    !.err = "ValueError",
                                    !.raised = "ValueError",
                                    !.before = ActiveDisplays]]
            /\ UNCHANGED mgr_lock
       ELSE /\ call' = [call EXCEPT ![p] =
                   [IdleCall EXCEPT !.op = "create", !.pc = "phase1",
                                    !.sid = sid, !.url = url,
                                    !.before = ActiveDisplays]]
            /\ mgr_lock' = p
    /\ UNCHANGED <<_sessions, _browsers, _displays, xvfb_displays, xvfb_lock,
                   _xvfb, playwright_ok, env, streamVars, libVars>>

\* phase 1 up to the spawn of Xvfb in allocate(): the pool lock, the
\* capacity check, the choice of the display number, the stale-lock
\* cleanup, the spawn
Phase1(p) ==
    /\ call[p].op = "create" /\ call[p].pc = "phase1"
    /\ IF ~_xvfb
       THEN /\ call' = [call EXCEPT ![p].pc = "phase2"]
            /\ UNCHANGED xvfb_lock
       ELSE /\ xvfb_lock = 0
            /\ IF active_count >= max_displays
               THEN /\ call' = [call EXCEPT ![p] = Fail(@, "RuntimeError:max")]
                    /\ UNCHANGED xvfb_lock
               ELSE /\ \E lf \in env.locks :
                         call' = [call EXCEPT ![p] =
                             [cleanup_stale_lock(@, lf) EXCEPT
                                 !.pc = "allocate",
                                 !.num = next_display_num,
                                 !.spawned = TRUE]]
                    /\ xvfb_lock' = p
    /\ UNCHANGED <<_sessions, _browsers, _displays, xvfb_displays, mgr_lock,
                   _xvfb, playwright_ok, env, streamVars, libVars>>

\* allocate(): Xvfb answered and Fluxbox started; the display is recorded
AllocateDone(p) ==
    /\ call[p].op = "create" /\ call[p].pc = "allocate"
    /\ xvfb_displays' = [xvfb_displays EXCEPT ![call[p].num] = p]
    /\ xvfb_lock' = 0
    /\ call' = [call EXCEPT ![p].display = call[p].num, ![p].pc = "phase2"]
    /\ UNCHANGED <<_sessions, _browsers, _displays, mgr_lock,
                   _xvfb, playwright_ok, env, streamVars, libVars>>

\* allocate(): the spawn of Xvfb or of Fluxbox raised, or Xvfb did not
\* answer within the polling window; nothing is recorded
AllocateFailed(p) ==
    /\ call[p].op = "create" /\ call[p].pc = "allocate"
    /\ xvfb_lock' = 0
    /\ call' = [call EXCEPT ![p] = Fail(@, "RuntimeError:xvfb")]
    /\ UNCHANGED <<_sessions, _browsers, _displays, xvfb_displays, mgr_lock,
                   _xvfb, playwright_ok, env, streamVars, libVars>>

\* the points at which _launch_browser can leave
LaunchOutcomes == {"ok", "start", "launch", "new_page", "goto"}

\* _launch_browser as seen from create(): what the automation acquired, what
\* _launch_browser itself undid, and whether the tuple reached the locals
launch_browser(c, outcome) ==
    CASE outcome = "ok" ->
           [c EXCEPT !.pwStarted = TRUE, !.brLaunched = TRUE,
                     !.pw = TRUE, !.browser = TRUE, !.pc = "phase3"]
      [] outcome = "start" ->
           Fail(c, "Error:start")
      [] outcome = "launch" ->
           Fail([c EXCEPT !.pwStarted = TRUE], "Error:launch")
      [] outcome = "new_page" ->
           Fail([c EXCEPT !.pwStarted = TRUE, !.brLaunched = TRUE],
                "Error:new_page")
      [] outcome = "goto" ->
           Fail(Log(Log([c EXCEPT !.pwStarted = TRUE, !.brLaunched = TRUE],
                        "browser.close"), "pw.stop"),
                "RuntimeError:goto")

\* phase 2: the browser, when a url was given
Phase2(p) ==
    /\ call[p].op = "create" /\ call[p].pc = "phase2"
    /\ IF ~call[p].url \/ ~playwright_ok
       THEN /\ call' = [call EXCEPT ![p].pc = "phase3"]
            /\ UNCHANGED _browsers
       ELSE \E outcome \in LaunchOutcomes :
            /\ call' = [call EXCEPT ![p] = launch_browser(@, outcome)]
            /\ _browsers' = IF outcome = "ok"
                            THEN [_browsers EXCEPT ![call[p].sid] = p]
                            ELSE _browsers
    /\ UNCHANGED <<_sessions, _displays, xvfb_displays, mgr_lock, xvfb_lock,
                   _xvfb, playwright_ok, env, streamVars, libVars>>

\* phase 3: session.start() returned; the session and its display are
\* recorded and the lock is released
Phase3(p) ==
    /\ call[p].op = "create" /\ call[p].pc = "phase3"
    /\ _sessions' = [_sessions EXCEPT ![call[p].sid] = p]
    /\ _displays' = IF call[p].display # 0
                    THEN [_displays EXCEPT ![call[p].sid] = call[p].display]
                    ELSE _displays
    /\ mgr_lock' = 0
    /\ call' = [call EXCEPT ![p].pc = "returned"]
    /\ UNCHANGED <<_browsers, xvfb_displays, xvfb_lock,
                   _xvfb, playwright_ok, env, streamVars, libVars>>

\* phase 3: session.start() raised
Phase3Failed(p) ==
    /\ call[p].op = "create" /\ call[p].pc = "phase3"
    /\ call' = [call EXCEPT ![p] = Fail(@, "Error:start_session")]
    /\ UNCHANGED <<_sessions, _browsers, _displays, xvfb_displays, mgr_lock,
                   xvfb_lock, _xvfb, playwright_ok, env, streamVars, libVars>>

\* the handler: `if browser:` close it, in its own try/except
RollbackClose(p) ==
    /\ call[p].op = "create" /\ call[p].pc = "rollback"
    /\ \E ok \in env.oks :
         call' = [call EXCEPT ![p] =
           [(IF @.browser THEN Try(@, "browser.close", ok) ELSE @)
               EXCEPT !.pc = "rb_pw"]]
    /\ UNCHANGED <<_sessions, _browsers, _displays, xvfb_displays, mgr_lock,
                   xvfb_lock, _xvfb, playwright_ok, env, streamVars, libVars>>

\* the handler: `if pw:` stop it, in its own try/except
RollbackPw(p) ==
    /\ call[p].op = "create" /\ call[p].pc = "rb_pw"
    /\ \E ok \in env.oks :
         call' = [call EXCEPT ![p] =
           [(IF @.pw THEN Try(@, "pw.stop", ok) ELSE @)
               EXCEPT !.pc = "rb_release"]]
    /\ UNCHANGED <<_sessions, _browsers, _displays, xvfb_displays, mgr_lock,
                   xvfb_lock, _xvfb, playwright_ok, env, streamVars, libVars>>

\* the handler: self._browsers.pop(session_id, None)
RollbackBrowsers_keep(b, sid) == b

RollbackBrowsers(b, sid) == [b EXCEPT ![sid] = 0]

\* XvfbManager.release: the entry leaves the table under the pool lock,
\* before the processes are stopped
release(d, display) == [d EXCEPT ![display] = 0]

\* the handler: the browsers entry is dropped and the display released
RollbackRelease(p) ==
    /\ call[p].op = "create" /\ call[p].pc = "rb_release"
    /\ _browsers' = RollbackBrowsers(_browsers, call[p].sid)
    /\ IF call[p].display # 0 /\ _xvfb
       THEN /\ xvfb_lock = 0
            /\ xvfb_displays' = release(xvfb_displays, call[p].display)
            /\ \E ok \in env.oks :
                 call' = [call EXCEPT ![p] =
                   [Try(@, "release", ok) EXCEPT !.pc = "rb_raise"]]
       ELSE /\ call' = [call EXCEPT ![p].pc = "rb_raise"]
            /\ UNCHANGED xvfb_displays
    /\ UNCHANGED <<_sessions, _displays, mgr_lock, xvfb_lock,
                   _xvfb, playwright_ok, env, streamVars, libVars>>

\* the handler: the bare `raise` re-raises the exception being handled and
\* the lock is released on the way out
RollbackRaise(p) ==
    /\ call[p].op = "create" /\ call[p].pc = "rb_raise"
    /\ call' = [call EXCEPT ![p].raised = call[p].err, ![p].pc = "raised"]
    /\ mgr_lock' = 0
    /\ UNCHANGED <<_sessions, _browsers, _displays, xvfb_displays, xvfb_lock,
                   _xvfb, playwright_ok, env, streamVars, libVars>>

\* SessionManager.stop(): the three entries leave the maps under the lock;
\* the session is popped first, and a missing session raises KeyError
\* before the other two maps are touched
ManagerStop(p, sid) ==
    /\ p \in env.procs /\ sid \in env.sids
    /\ call[p].op = "none"
    /\ mgr_lock = 0
    /\ _sessions' = pop(_sessions, sid)
    /\ IF missing(_sessions[sid])
       THEN /\ call' = [call EXCEPT ![p] =
                   [IdleCall EXCEPT !.op = "stop", !.pc = "raised",
                                    !.sid = sid, !.err = "KeyError",
                                    !.raised = "KeyError"]]
            /\ UNCHANGED <<_browsers, _displays>>
       ELSE /\ call' = [call EXCEPT ![p] =
                   [IdleCall EXCEPT !.op = "stop", !.pc = "stop_session",
                                    !.sid = sid,
                                    !.session = _sessions[sid],
                                    !.browser_info = _browsers[sid],
                                    !.display = _displays[sid]]]
            /\ _browsers' = pop(_browsers, sid)
            /\ _displays' = pop(_displays, sid)
    /\ UNCHANGED <<xvfb_displays, mgr_lock, xvfb_lock,
                   _xvfb, playwright_ok, env, streamVars, libVars>>

\* SessionManager.get(): a read of the session map, without the lock
Get(p, sid) ==
    /\ p \in env.procs /\ sid \in env.sids
    /\ call[p].op = "none"
    /\ call' = [call EXCEPT ![p] =
           [IdleCall EXCEPT !.op = "get", !.pc = "returned", !.sid = sid,
                            !.session = _sessions[sid]]]
    /\ UNCHANGED <<_sessions, _browsers, _displays, xvfb_displays, mgr_lock,
                   xvfb_lock, _xvfb, playwright_ok, env, streamVars, libVars>>

\* stop(): 1. session.stop(), outside the lock
StopSession(p) ==
    /\ call[p].op = "stop" /\ call[p].pc = "stop_session"
    /\ \E ok \in env.oks :
         call' = [call EXCEPT ![p] =
           [Try(@, "session.stop", ok) EXCEPT
               !.pc = IF call[p].browser_info # 0 THEN "stop_browser"
                                            ELSE "stop_release"]]
    /\ UNCHANGED <<_sessions, _browsers, _displays, xvfb_displays, mgr_lock,
                   xvfb_lock, _xvfb, playwright_ok, env, streamVars, libVars>>

\* stop(): 2. browser.close()
StopBrowser(p) ==
    /\ call[p].op = "stop" /\ call[p].pc = "stop_browser"
    /\ \E ok \in env.oks :
         call' = [call EXCEPT ![p] =
           [Try(@, "browser.close", ok) EXCEPT !.pc = "stop_pw"]]
    /\ UNCHANGED <<_sessions, _browsers, _displays, xvfb_displays, mgr_lock,
                   xvfb_lock, _xvfb, playwright_ok, env, streamVars, libVars>>

\* stop(): 2. pw.stop()
StopPw(p) ==
    /\ call[p].op = "stop" /\ call[p].pc = "stop_pw"
    /\ \E ok \in env.oks :
         call' = [call EXCEPT ![p] =
           [Try(@, "pw.stop", ok) EXCEPT !.pc = "stop_release"]]
    /\ UNCHANGED <<_sessions, _browsers, _displays, xvfb_displays, mgr_lock,
                   xvfb_lock, _xvfb, playwright_ok, env, streamVars, libVars>>

\* a create() that is between its entry and its exit
InCreate(c) == c.op = "create" /\ c.pc \notin {"raised", "returned"}

\* stop(): 3. the display is released; the calls that are inside create()
\* note that it left the table while they ran
StopRelease(p) ==
    /\ call[p].op = "stop" /\ call[p].pc = "stop_release"
    /\ IF call[p].display # 0 /\ _xvfb
       THEN /\ xvfb_lock = 0
            /\ xvfb_displays' = release(xvfb_displays, call[p].display)
            /\ \E ok \in env.oks :
                 call' = [q \in Procs |->
                   IF q = p
                   THEN [Try(call[q], "release", ok) EXCEPT !.pc = "returned"]
                   ELSE IF InCreate(call[q])
                        THEN [call[q] EXCEPT
                                 !.gone = @ \cup {call[p].display}]
                        ELSE call[q]]
       ELSE /\ call' = [call EXCEPT ![p].pc = "returned"]
            /\ UNCHANGED xvfb_displays
    /\ UNCHANGED <<_sessions, _browsers, _displays, mgr_lock, xvfb_lock,
                   _xvfb, playwright_ok, env, streamVars, libVars>>

(* ------------------------- H264UnitExtractor -------------------------- *)
(* The extractor works on bytes.  push() and flush() compare bytes with 0  *)
(* and 1 only (start codes, and the byte after a 3-byte start code), so a  *)
(* byte is 0, 1 or another value.  Offsets are the code's, from 0.         *)

ByteValues == {0, 1, 2}

START_CODE_3 == <<0, 0, 1>>

START_CODE_4 == <<0, 0, 0, 1>>

\* buf[i]
byte(buf, i) == buf[i + 1]

\* buf[a:b], with Python's clamping of the bounds
slice(buf, a, b) == SubSeq(buf, a + 1, IF b < Len(buf) THEN b ELSE Len(buf))

\* the chunks of at most k bytes, none empty
Chunks(k) == UNION {[1..n -> ByteValues] : n \in 1..k}

\* the buffer is replaced by the chunk
extend_replace(buf, data) == data

\* push(): the chunk is appended and the buffer cut to its last _max bytes
extend(buf, data) ==
    IF data = <<>> THEN buf
    ELSE LET b == buf \o data
         IN  IF Len(b) > _max
             THEN slice(b, Len(b) - _max, Len(b))
             ELSE b

\* push(): the loop that collects the offsets of the start codes
RECURSIVE collect_starts(_, _, _)
collect_starts(buf, i, offs) ==
    LET n == Len(buf)
    IN  IF ~(i < n - 3) THEN offs
        ELSE IF byte(buf, i) = 0 /\ byte(buf, i + 1) = 0
             THEN IF byte(buf, i + 2) = 1
                  THEN collect_starts(buf, i + 3, Append(offs, i))
                  ELSE IF i < n - 4 /\ byte(buf, i + 2) = 0
                                    /\ byte(buf, i + 3) = 1
                       THEN collect_starts(buf, i + 4, Append(offs, i))
                       ELSE collect_starts(buf, i + 1, offs)
             ELSE collect_starts(buf, i + 1, offs)

\* the rewriting of a 3-byte start code, in push() and in flush(): it is
\* skipped when the byte after the code is 0
normalize(nal) ==
    IF slice(nal, 0, 3) = START_CODE_3 /\ slice(nal, 3, 4) # <<0>>
    THEN START_CODE_4 \o slice(nal, 3, Len(nal))
    ELSE nal

\* push() after the chunk was appended: the result and the buffer left
RECURSIVE scan_buffer(_)
scan_buffer(buf) ==
    LET n == Len(buf)
        offs == collect_starts(buf, 0, <<>>)
        k == Len(offs)
    IN  IF n < 4 \/ k < 2 THEN [buf |-> buf, out |-> <<>>]
        ELSE IF offs[1] # 0
             THEN scan_buffer(slice(buf, offs[1], n))
             ELSE [buf |-> slice(buf, offs[k], n),
                   out |-> SelectSeq(
                       [j \in 1..(k - 1) |->
                           normalize(slice(buf, offs[j], offs[j + 1]))],
                       LAMBDA nal : Len(nal) <= max_nal_bytes)]

\* H264UnitExtractor.push
push(buf, data) == scan_buffer(extend(buf, data))

\* H264UnitExtractor.flush
flush(buf) ==
    IF Len(buf) < 5 THEN [buf |-> <<>>, out |-> <<>>]
    ELSE LET nal == normalize(buf)
         IN  [buf |-> <<>>,
              out |-> IF slice(nal, 0, 4) = START_CODE_4 THEN <<nal>>
                      ELSE <<>>]

\* H264UnitExtractor.__init__
ExtInit(max_buffer) ==
    /\ _buf = <<>>
    /\ _max = max_buffer
    /\ pushed = <<>>
    /\ results = <<>>
    /\ ret = <<>>
    /\ tail = <<>>
    /\ last_op = "none"
    /\ flushes = 0
    /\ pushes = 0

\* a call of push() with the next chunk of the stream
Push ==
    /\ flushes = 0
    /\ Len(pushed) < MaxBytes
    /\ \E data \in Chunks(MaxBytes - Len(pushed)) :
         LET r == push(_buf, data)
         IN  /\ _buf' = r.buf
             /\ ret' = r.out
             /\ results' = results \o r.out
             /\ pushed' = pushed \o data
    /\ tail' = _buf
    /\ last_op' = "push"
    /\ pushes' = pushes + 1
    /\ UNCHANGED <<_max, flushes, cfgVars, streamVars, mgrVars, srcVars, genVars, poolVars>>

\* a call of flush(): at the end of the stream, and again
Flush ==
    /\ flushes < MaxFlushes
    /\ LET r == flush(_buf)
       IN  /\ _buf' = r.buf
           /\ ret' = r.out
           /\ results' = results \o r.out
    /\ tail' = _buf
    /\ last_op' = "flush"
    /\ flushes' = flushes + 1
    /\ UNCHANGED <<_max, pushed, pushes, cfgVars, streamVars, mgrVars, srcVars, genVars, poolVars>>

(* ----------------------------- StreamConfig --------------------------- *)
Fields == {"display", "width", "height", "framerate", "bitrate", "maxrate",
           "bufsize", "gop_size"}

\* the dataclass's field defaults
Defaults ==
    [display |-> ":99", width |-> 1280, height |-> 720, framerate |-> 15,
     bitrate |-> "500k", maxrate |-> "800k", bufsize |-> "500k",
     gop_size |-> 10]

\* another value for each field
Others ==
    [display |-> ":100", width |-> 1920, height |-> 1080, framerate |-> 10,
     bitrate |-> "1000k", maxrate |-> "1600k", bufsize |-> "1000k",
     gop_size |-> 30]

\* the generated __init__: a field is the argument passed, or its default
StreamConfig(kw) ==
    [f \in Fields |-> IF f \in DOMAIN kw THEN kw[f] ELSE Defaults[f]]

\* StreamConfig() with no arguments
CfgInit ==
    /\ kwargs = <<>>
    /\ config = StreamConfig(<<>>)

\* StreamConfig(**kw): some fields are passed, each with its default value
\* or with another one; one object is built after the initial one
NewConfig ==
    /\ kwargs = <<>>
    /\ \E D \in SUBSET Fields : \E other \in SUBSET D :
         LET kw == [f \in D |-> IF f \in other THEN Others[f]
                                ELSE Defaults[f]]
         IN  /\ kwargs' = kw
             /\ config' = StreamConfig(kw)
    /\ UNCHANGED <<extVars, streamVars, mgrVars, srcVars, genVars, poolVars>>


(* ---------------------------- FFmpegSource ---------------------------- *)
(* The source by itself, with the child processes it spawns.  Its callers  *)
(* are session.start() and session.stop(): the status checks of the        *)
(* session admit one start() at a time, one stop() at a time, and no       *)
(* start() while a stop() is in progress; a stop() may begin while a       *)
(* start() is spawning.  A child exits when it likes: at end of input, on  *)
(* a signal, or never on SIGTERM.                                          *)

SrcProcs == 1..SrcCalls

Children == 1..MaxChildren

\* the locals of a call on the source that has not begun
IdleSrc == [op |-> "none", pc |-> "idle", target |-> 0, err |-> "",
            spawned |-> 0]

\* FFmpegSource.__init__
SrcInit ==
    /\ _running = FALSE
    /\ _process = 0
    /\ child = [n \in Children |-> "unborn"]
    /\ signals = [n \in Children |-> <<>>]
    /\ src = [p \in SrcProcs |-> IdleSrc]

\* a call of the kind is between its entry and its exit
SrcBusy(op) ==
    \E q \in SrcProcs :
        src[q].op = op /\ src[q].pc \in {"spawning", "waiting", "killwait"}

\* `if self._running`
already_running == _running

\* start() up to `await asyncio.create_subprocess_exec`: it raises when the
\* source is running
SrcStart(p) ==
    /\ src[p].op = "none"
    /\ ~SrcBusy("start") /\ ~SrcBusy("stop")
    /\ IF already_running
       THEN src' = [src EXCEPT ![p] = [IdleSrc EXCEPT !.op = "start",
                       !.pc = "raised", !.err = "RuntimeError"]]
       ELSE /\ \E n \in Children : child[n] = "unborn"
            /\ src' = [src EXCEPT ![p] = [IdleSrc EXCEPT !.op = "start",
                                                         !.pc = "spawning"]]
    /\ UNCHANGED <<_running, _process, child, signals>>
    /\ UNCHANGED <<extVars, cfgVars, streamVars, mgrVars, genVars, poolVars>>

\* the child is spawned: the handle is stored and the source is running
SrcSpawned(p) ==
    /\ src[p].op = "start" /\ src[p].pc = "spawning"
    /\ LET n == CHOOSE m \in Children :
                  child[m] = "unborn"
                  /\ \A k \in Children : child[k] = "unborn" => m <= k
       IN  /\ child' = [child EXCEPT ![n] = "alive"]
           /\ _process' = n
           /\ src' = [src EXCEPT ![p].pc = "returned", ![p].spawned = n]
    /\ _running' = TRUE
    /\ UNCHANGED signals
    /\ UNCHANGED <<extVars, cfgVars, streamVars, mgrVars, genVars, poolVars>>

\* create_subprocess_exec raises: start() propagates it
SrcSpawnFailed(p) ==
    /\ src[p].op = "start" /\ src[p].pc = "spawning"
    /\ src' = [src EXCEPT ![p].pc = "raised", ![p].err = "OSError"]
    /\ UNCHANGED <<_running, _process, child, signals>>
    /\ UNCHANGED <<extVars, cfgVars, streamVars, mgrVars, genVars, poolVars>>

\* a child exits: end of input, a crash, SIGTERM handled, SIGKILL
ChildExits(n) ==
    /\ child[n] = "alive"
    /\ child' = [child EXCEPT ![n] = "exited"]
    /\ UNCHANGED <<_running, _process, signals, src>>
    /\ UNCHANGED <<extVars, cfgVars, streamVars, mgrVars, genVars, poolVars>>

\* the timeout is not waited for: SIGKILL follows SIGTERM at once
term_then_wait_never(n) == FALSE

\* `await asyncio.wait_for(self._process.wait(), timeout=5.0)` is reached
\* after SIGTERM was sent to a child that has not exited
term_then_wait(n) == child[n] = "alive"

\* stop() up to its first suspension: not running; with no process it
\* returns; else SIGTERM is sent and the exit awaited.  For a child that
\* has exited, send_signal raises ProcessLookupError or the wait returns
\* at once: in both cases the handle is dropped and stop() returns.
SrcStop(p) ==
    /\ src[p].op = "none"
    /\ ~SrcBusy("stop")
    /\ _running' = FALSE
    /\ IF _process = 0
       THEN /\ src' = [src EXCEPT ![p] = [IdleSrc EXCEPT !.op = "stop",
                                                         !.pc = "returned"]]
            /\ UNCHANGED <<_process, signals>>
       ELSE IF term_then_wait(_process)
            THEN /\ signals' = [signals EXCEPT ![_process] = Append(@, "TERM")]
                 /\ src' = [src EXCEPT ![p] = [IdleSrc EXCEPT !.op = "stop",
                                !.pc = "waiting", !.target = _process]]
                 /\ UNCHANGED _process
            ELSE /\ \/ signals' = [signals EXCEPT
                                      ![_process] = Append(@, "TERM")]
                    \/ UNCHANGED signals
                 /\ src' = [src EXCEPT ![p] = [IdleSrc EXCEPT !.op = "stop",
                                !.pc = "returned", !.target = _process]]
                 /\ _process' = 0
    /\ UNCHANGED child
    /\ UNCHANGED <<extVars, cfgVars, streamVars, mgrVars, genVars, poolVars>>

\* the child exited within the timeout: `finally: self._process = None`
SrcWaitDone(p) ==
    /\ src[p].op = "stop" /\ src[p].pc \in {"waiting", "killwait"}
    /\ child[src[p].target] = "exited"
    /\ _process' = 0
    /\ src' = [src EXCEPT ![p].pc = "returned"]
    /\ UNCHANGED <<_running, child, signals>>
    /\ UNCHANGED <<extVars, cfgVars, streamVars, mgrVars, genVars, poolVars>>

\* asyncio.TimeoutError after 5 s: SIGKILL, and the exit is awaited again
SrcTimeout(p) ==
    /\ src[p].op = "stop" /\ src[p].pc = "waiting"
    /\ child[src[p].target] = "alive"
    /\ signals' = [signals EXCEPT ![src[p].target] = Append(@, "KILL")]
    /\ src' = [src EXCEPT ![p].pc = "killwait"]
    /\ UNCHANGED <<_running, _process, child>>
    /\ UNCHANGED <<extVars, cfgVars, streamVars, mgrVars, genVars, poolVars>>

(* ------------------------ FFmpegSource.stream ------------------------- *)
(* The generator stream() with the pipe it reads and the extractor it     *)
(* feeds.  Its consumer is the loop of _run_broadcast, which handles a    *)
(* unit without suspending, so the generator runs from one read of stdout *)
(* to the next in one step.  The broadcast task can be cancelled while    *)
(* the read is pending.                                                   *)

\* the units the encoder writes: a 4-byte and a 3-byte start code, each
\* with a header byte and one byte of payload
EncoderUnits == {<<0, 0, 0, 1, 1, 2>>, <<0, 0, 1, 2, 2>>}

\* the locals of a generator that was not called
IdleGen == [pc |-> "none", fd |-> 0, cancel |-> FALSE, read |-> <<>>,
            yielded |-> <<>>, flushed |-> 0]

GenInit ==
    /\ pipe = [n \in Children |-> <<>>]
    /\ written = 0
    /\ gen = IdleGen

\* the child writes a unit to its stdout
ChildWrites(n) ==
    /\ child[n] = "alive"
    /\ written < GenWrites
    /\ \E u \in EncoderUnits : pipe' = [pipe EXCEPT ![n] = @ \o u]
    /\ written' = written + 1
    /\ UNCHANGED <<gen, _buf, srcVars>>
    /\ UNCHANGED <<_max, pushed, results, ret, tail, last_op, flushes, pushes>>
    /\ UNCHANGED <<cfgVars, streamVars, mgrVars, poolVars>>

\* the tail is dropped
finally_flush_drop(buf) == [buf |-> <<>>, out |-> <<>>]

\* stream(), the finally block: the extractor is flushed
finally_flush(buf) == flush(buf)

\* stream() leaves its loop: the finally block yields the flushed tail and
\* the generator ends
GenEnds(g, buf) ==
    LET r == finally_flush(buf)
    IN  [g EXCEPT !.pc = "ended", !.yielded = @ \o r.out,
                  !.flushed = @ + 1]

\* the loop condition `while self._running`, then the next read
GenLoops(g, buf) ==
    IF _running THEN [g EXCEPT !.pc = "reading", !.fd = _process]
    ELSE GenEnds(g, buf)

\* the first step of stream(): RuntimeError without a process, else the
\* loop is entered
GenOpen ==
    /\ gen.pc \in {"none", "ended", "raised"}
    /\ ~SrcBusy("start")
    /\ IF _process = 0
       THEN /\ gen' = [IdleGen EXCEPT !.pc = "raised"]
            /\ UNCHANGED _buf
       ELSE /\ gen' = GenLoops(IdleGen, _buf)
            /\ _buf' = IF _running THEN _buf ELSE <<>>
    /\ UNCHANGED <<pipe, written, srcVars>>
    /\ UNCHANGED <<_max, pushed, results, ret, tail, last_op, flushes, pushes>>
    /\ UNCHANGED <<cfgVars, streamVars, mgrVars, poolVars>>

\* a read of stdout returns a chunk: it is pushed, the units are yielded,
\* and the loop goes on or ends
GenRead ==
    /\ gen.pc = "reading" /\ ~gen.cancel
    /\ pipe[gen.fd] # <<>>
    /\ \E k \in 1..READ_CHUNK_SIZE :
         /\ k <= Len(pipe[gen.fd])
         /\ LET chunk == SubSeq(pipe[gen.fd], 1, k)
                r == push(_buf, chunk)
                g == [gen EXCEPT !.read = @ \o chunk,
                                 !.yielded = @ \o r.out]
            IN  /\ gen' = GenLoops(g, r.buf)
                /\ _buf' = IF _running THEN r.buf ELSE <<>>
                /\ pipe' = [pipe EXCEPT ![gen.fd] =
                               SubSeq(@, k + 1, Len(@))]
    /\ UNCHANGED <<written, srcVars>>
    /\ UNCHANGED <<_max, pushed, results, ret, tail, last_op, flushes, pushes>>
    /\ UNCHANGED <<cfgVars, streamVars, mgrVars, poolVars>>

\* the child has exited and its pipe is empty: the read returns b""
GenEof ==
    /\ gen.pc = "reading" /\ ~gen.cancel
    /\ pipe[gen.fd] = <<>> /\ child[gen.fd] = "exited"
    /\ gen' = GenEnds(gen, _buf)
    /\ _buf' = <<>>
    /\ UNCHANGED <<pipe, written, srcVars>>
    /\ UNCHANGED <<_max, pushed, results, ret, tail, last_op, flushes, pushes>>
    /\ UNCHANGED <<cfgVars, streamVars, mgrVars, poolVars>>

\* the broadcast task is cancelled while the read is pending
TaskCancel ==
    /\ gen.pc = "reading" /\ ~gen.cancel
    /\ gen' = [gen EXCEPT !.cancel = TRUE]
    /\ UNCHANGED <<pipe, written, _buf, srcVars>>
    /\ UNCHANGED <<_max, pushed, results, ret, tail, last_op, flushes, pushes>>
    /\ UNCHANGED <<cfgVars, streamVars, mgrVars, poolVars>>

\* CancelledError is raised at the read: the finally block runs
GenCancelled ==
    /\ gen.pc = "reading" /\ gen.cancel
    /\ gen' = GenEnds(gen, _buf)
    /\ _buf' = <<>>
    /\ UNCHANGED <<pipe, written, srcVars>>
    /\ UNCHANGED <<_max, pushed, results, ret, tail, last_op, flushes, pushes>>
    /\ UNCHANGED <<cfgVars, streamVars, mgrVars, poolVars>>

\* session.start() is legal again only after session.stop() has awaited
\* the broadcast task, that is after the generator has ended
SessionStart(p) ==
    /\ gen.pc # "reading"
    /\ SrcStart(p)

(* ---------------------------- XvfbManager ----------------------------- *)
(* The display pool with the processes it starts.  A call of allocate()   *)
(* or release() is a sequence of steps, one per stretch of code between   *)
(* two suspensions.  The Xvfb and fluxbox processes are the environment:  *)
(* an Xvfb serves its display some time after it was spawned unless       *)
(* another server holds the display, writes the lock file when it does,   *)
(* and removes it when it exits on its own terms; a process may ignore    *)
(* SIGTERM and exits after SIGKILL.                                       *)

PoolProcs == 1..PoolCalls
Pids == 1..MaxPids

\* a call that was not made
IdlePoolCall == [op |-> "none", pc |-> "idle", display |-> 0, xvfb |-> 0,
                 fluxbox |-> 0, polls |-> 0, stage |-> 0, err |-> "",
                 ret |-> 0]

\* a process id that was not given out
NoProc == [kind |-> "none", display |-> 0, state |-> "none",
           serving |-> FALSE, signals |-> <<>>]

\* XvfbManager.__init__: an empty table; no process and no lock file yet
PoolInit ==
    /\ pool_displays = [d \in DisplayNums |-> <<>>]
    /\ pool_lock = 0
    /\ proc = [k \in Pids |-> NoProc]
    /\ lock_file = [d \in DisplayNums |-> 0]
    /\ pcall = [p \in PoolProcs |-> IdlePoolCall]

\* the keys of self._displays
Used == {d \in DisplayNums : pool_displays[d] # <<>>}

\* _next_display_num: the first number of the range that is not a key
_next_display_num == CHOOSE d \in DisplayNums \ Used :
                        \A e \in DisplayNums \ Used : d <= e

\* _cleanup_stale_lock: a lock file whose PID is not alive is removed
_cleanup_stale_lock(lf, pr, d) ==
    IF lf[d] # 0 /\ pr[lf[d]].state # "alive"
    THEN [lf EXCEPT ![d] = 0]
    ELSE lf

\* check_display: xdpyinfo gets an answer from a server on the display
check_display(d) ==
    \E k \in Pids : /\ proc[k].kind = "Xvfb" /\ proc[k].display = d
                    /\ proc[k].state = "alive" /\ proc[k].serving

\* the process id the next spawn gets
NewPid == CHOOSE k \in Pids :
            /\ proc[k].kind = "none"
            /\ \A j \in Pids : proc[j].kind = "none" => k <= j

\* os.killpg: the signal reaches a process that is alive
killpg(pr, k, sig) ==
    IF pr[k].state = "alive"
    THEN [pr EXCEPT ![k].signals = Append(@, sig)]
    ELSE pr

\* allocate(): under the lock, the cap, the number, the stale lock file,
\* then the spawn of Xvfb
PoolAllocate(p) ==
    /\ pcall[p].op = "none"
    /\ pool_lock = 0
    /\ IF Cardinality(Used) >= max_displays
       THEN /\ pcall' = [pcall EXCEPT ![p] =
                   [@ EXCEPT !.op = "allocate", !.pc = "raised",
                             !.err = "max"]]
            /\ UNCHANGED <<pool_lock, lock_file>>
       ELSE /\ pcall' = [pcall EXCEPT ![p] =
                   [@ EXCEPT !.op = "allocate", !.pc = "spawn_xvfb",
                             !.display = _next_display_num]]
            /\ pool_lock' = p
            /\ lock_file' = _cleanup_stale_lock(lock_file, proc,
                                                _next_display_num)
    /\ UNCHANGED <<pool_displays, proc>>
    /\ UNCHANGED <<extVars, cfgVars, srcVars, genVars, streamVars, mgrVars>>

\* create_subprocess_exec("Xvfb") returns the process; a server that
\* finds the display held by another one exits
XvfbSpawned(p) ==
    /\ pcall[p].pc = "spawn_xvfb"
    /\ \E k \in Pids : proc[k].kind = "none"
    /\ LET d == pcall[p].display
       IN  proc' = [proc EXCEPT ![NewPid] =
                [kind |-> "Xvfb", display |-> d,
                 state |-> IF check_display(d) THEN "exited" ELSE "alive",
                 serving |-> FALSE, signals |-> <<>>]]
    /\ pcall' = [pcall EXCEPT ![p] =
            [@ EXCEPT !.pc = "poll", !.xvfb = NewPid]]
    /\ UNCHANGED <<pool_displays, pool_lock, lock_file>>
    /\ UNCHANGED <<extVars, cfgVars, srcVars, genVars, streamVars, mgrVars>>

\* create_subprocess_exec("Xvfb") raises: nothing was spawned
XvfbSpawnFailed(p) ==
    /\ pcall[p].pc = "spawn_xvfb"
    /\ pcall' = [pcall EXCEPT ![p] =
            [@ EXCEPT !.pc = "raised", !.err = "spawn"]]
    /\ pool_lock' = 0
    /\ UNCHANGED <<pool_displays, proc, lock_file>>
    /\ UNCHANGED <<extVars, cfgVars, srcVars, genVars, streamVars, mgrVars>>

\* an Xvfb comes up: it writes its lock file and answers on the display
XvfbReady(k) ==
    /\ proc[k].kind = "Xvfb" /\ proc[k].state = "alive"
    /\ ~proc[k].serving
    /\ proc[k].signals = <<>>
    /\ ~check_display(proc[k].display)
    /\ proc' = [proc EXCEPT ![k].serving = TRUE]
    /\ lock_file' = [lock_file EXCEPT ![proc[k].display] = k]
    /\ UNCHANGED <<pool_displays, pool_lock, pcall>>
    /\ UNCHANGED <<extVars, cfgVars, srcVars, genVars, streamVars, mgrVars>>

\* a process exits; an Xvfb that exits on its own terms removes its lock
\* file, one that is killed leaves it
ProcExits(k) ==
    /\ proc[k].state = "alive"
    /\ proc' = [proc EXCEPT ![k].state = "exited", ![k].serving = FALSE]
    /\ \E clean \in BOOLEAN :
         /\ "KILL" \in Range(proc[k].signals) => ~clean
         /\ lock_file' =
              IF clean /\ proc[k].kind = "Xvfb"
                 /\ lock_file[proc[k].display] = k
              THEN [lock_file EXCEPT ![proc[k].display] = 0]
              ELSE lock_file
    /\ UNCHANGED <<pool_displays, pool_lock, pcall>>
    /\ UNCHANGED <<extVars, cfgVars, srcVars, genVars, streamVars, mgrVars>>

\* one round of the poll loop: the sleep, then check_display; a display
\* that did not answer in the last round has the server killed
Poll(p) ==
    /\ pcall[p].pc = "poll"
    /\ pcall[p].polls < _POLL_MAX_ATTEMPTS
    /\ LET c == [pcall[p] EXCEPT !.polls = @ + 1]
       IN  IF check_display(c.display)
           THEN /\ pcall' = [pcall EXCEPT ![p] =
                       [c EXCEPT !.pc = "spawn_fluxbox"]]
                /\ UNCHANGED proc
           ELSE IF c.polls < _POLL_MAX_ATTEMPTS
           THEN /\ pcall' = [pcall EXCEPT ![p] = c]
                /\ UNCHANGED proc
           ELSE /\ pcall' = [pcall EXCEPT ![p] =
                       [c EXCEPT !.pc = "kill_wait"]]
                /\ proc' = killpg(proc, c.xvfb, "KILL")
    /\ UNCHANGED <<pool_displays, pool_lock, lock_file>>
    /\ UNCHANGED <<extVars, cfgVars, srcVars, genVars, streamVars, mgrVars>>

\* the killed server was awaited: the lock file is cleaned and allocate()
\* raises
AllocateTimedOut(p) ==
    /\ pcall[p].pc = "kill_wait"
    /\ pcall[p].op = "allocate"
    /\ proc[pcall[p].xvfb].state = "exited"
    /\ lock_file' = _cleanup_stale_lock(lock_file, proc, pcall[p].display)
    /\ pcall' = [pcall EXCEPT ![p] =
            [@ EXCEPT !.pc = "raised", !.err = "timeout"]]
    /\ pool_lock' = 0
    /\ UNCHANGED <<pool_displays, proc>>
    /\ UNCHANGED <<extVars, cfgVars, srcVars, genVars, streamVars, mgrVars>>

\* create_subprocess_exec("fluxbox") returns the process
FluxboxSpawned(p) ==
    /\ pcall[p].pc = "spawn_fluxbox"
    /\ \E k \in Pids : proc[k].kind = "none"
    /\ proc' = [proc EXCEPT ![NewPid] =
            [kind |-> "fluxbox", display |-> pcall[p].display,
             state |-> "alive", serving |-> FALSE, signals |-> <<>>]]
    /\ pcall' = [pcall EXCEPT ![p] =
            [@ EXCEPT !.pc = "fluxbox_wait", !.fluxbox = NewPid]]
    /\ UNCHANGED <<pool_displays, pool_lock, lock_file>>
    /\ UNCHANGED <<extVars, cfgVars, srcVars, genVars, streamVars, mgrVars>>

\* create_subprocess_exec("fluxbox") raises: the exception leaves
\* allocate() through the lock block
FluxboxSpawnFailed(p) ==
    /\ pcall[p].pc = "spawn_fluxbox"
    /\ pcall' = [pcall EXCEPT ![p] =
            [@ EXCEPT !.pc = "raised", !.err = "spawn"]]
    /\ pool_lock' = 0
    /\ UNCHANGED <<pool_displays, proc, lock_file>>
    /\ UNCHANGED <<extVars, cfgVars, srcVars, genVars, streamVars, mgrVars>>

\* after the wait for fluxbox the entry is recorded and the id returned
AllocateRecord(p) ==
    /\ pcall[p].pc = "fluxbox_wait"
    /\ pool_displays' = [pool_displays EXCEPT ![pcall[p].display] =
            <<pcall[p].xvfb, pcall[p].fluxbox>>]
    /\ pcall' = [pcall EXCEPT ![p] =
            [@ EXCEPT !.pc = "returned", !.ret = pcall[p].display]]
    /\ pool_lock' = 0
    /\ UNCHANGED <<proc, lock_file>>
    /\ UNCHANGED <<extVars, cfgVars, srcVars, genVars, streamVars, mgrVars>>

\* release() stops the display server first
stop_order_reversed == <<"xvfb", "fluxbox">>

\* release(): _stop_process for fluxbox, then for Xvfb
stop_order == <<"fluxbox", "xvfb">>

\* the process of a stage of release()
Target(c, i) == IF stop_order[i] = "fluxbox" THEN c.fluxbox ELSE c.xvfb

\* release() from stage i on, up to its next suspension: _stop_process
\* returns at once for a process that has exited, else SIGTERM goes to
\* its group and its exit is awaited; after the last stage the lock file
\* is cleaned and release() returns
RECURSIVE StopFrom(_, _, _, _)
StopFrom(c, i, pr, lf) ==
    IF i > Len(stop_order)
    THEN [call |-> [c EXCEPT !.pc = "returned", !.stage = 0],
          proc |-> pr,
          lock_file |-> _cleanup_stale_lock(lf, pr, c.display)]
    ELSE IF pr[Target(c, i)].state # "alive"
    THEN StopFrom(c, i + 1, pr, lf)
    ELSE [call |-> [c EXCEPT !.pc = "term_wait", !.stage = i],
          proc |-> killpg(pr, Target(c, i), "TERM"),
          lock_file |-> lf]

\* release(): the entry is popped under the lock; an unknown id returns
PoolRelease(p, d) ==
    /\ pcall[p].op = "none"
    /\ pool_lock = 0
    /\ IF pool_displays[d] = <<>>
       THEN /\ pcall' = [pcall EXCEPT ![p] =
                   [@ EXCEPT !.op = "release", !.pc = "returned",
                             !.display = d]]
            /\ UNCHANGED <<pool_displays, proc, lock_file>>
       ELSE LET c == [pcall[p] EXCEPT !.op = "release", !.display = d,
                          !.xvfb = pool_displays[d][1],
                          !.fluxbox = pool_displays[d][2]]
                r == StopFrom(c, 1, proc, lock_file)
            IN  /\ pool_displays' = [pool_displays EXCEPT ![d] = <<>>]
                /\ pcall' = [pcall EXCEPT ![p] = r.call]
                /\ proc' = r.proc
                /\ lock_file' = r.lock_file
    /\ UNCHANGED pool_lock
    /\ UNCHANGED <<extVars, cfgVars, srcVars, genVars, streamVars, mgrVars>>

\* the awaited process has exited: release() goes on with the next stage
StopWaitDone(p) ==
    /\ pcall[p].pc \in {"term_wait", "kill_wait"}
    /\ pcall[p].op = "release"
    /\ proc[Target(pcall[p], pcall[p].stage)].state = "exited"
    /\ LET r == StopFrom(pcall[p], pcall[p].stage + 1, proc, lock_file)
       IN  /\ pcall' = [pcall EXCEPT ![p] = r.call]
           /\ proc' = r.proc
           /\ lock_file' = r.lock_file
    /\ UNCHANGED <<pool_displays, pool_lock>>
    /\ UNCHANGED <<extVars, cfgVars, srcVars, genVars, streamVars, mgrVars>>

\* _STOP_TIMEOUT passes with the process alive: _kill_process sends
\* SIGKILL to its group and awaits the exit
StopTimeout(p) ==
    /\ pcall[p].pc = "term_wait"
    /\ pcall[p].op = "release"
    /\ proc[Target(pcall[p], pcall[p].stage)].state = "alive"
    /\ proc' = killpg(proc, Target(pcall[p], pcall[p].stage), "KILL")
    /\ pcall' = [pcall EXCEPT ![p].pc = "kill_wait"]
    /\ UNCHANGED <<pool_displays, pool_lock, lock_file>>
    /\ UNCHANGED <<extVars, cfgVars, srcVars, genVars, streamVars, mgrVars>>

\* no extractor call, no configuration and no call on a source in the
\* explorations of the session and of the manager
LibInit ==
    /\ ExtInit(max_buffer_bytes) /\ CfgInit /\ SrcInit /\ GenInit
    /\ PoolInit

(* --------------------------- specifications -------------------------- *)
\* an environment bounds one exploration of the manager: the calls that are
\* made, the session ids they name, the outcomes of the teardown steps, the
\* lock files allocate() finds
Environment(procs, sids, oks, locks) ==
    [procs |-> procs, sids |-> sids, oks |-> oks, locks |-> locks]

\* a scenario bounds one exploration: the clients that subscribe, the units
\* the encoder may emit and how many, and the number of start() calls
Scenario(clients, kinds, units, nstarts) ==
    [clients |-> clients, kinds |-> kinds, units |-> units, starts |-> nstarts]

\* one subscriber, an encoder that may emit any unit
Init ==
    /\ StreamInit /\ LibInit
    /\ scn = Scenario({1}, ShortKinds \cup LongKinds, MaxUnits, MaxStarts)
    /\ MgrInit /\ _xvfb = TRUE /\ playwright_ok = TRUE
    /\ env = Environment({}, {}, {TRUE}, {"none"})

\* several subscribers, an encoder that emits short slices
InitFan ==
    /\ StreamInit /\ LibInit
    /\ scn = Scenario(Clients, SliceKinds, FanUnits, MaxStarts)
    /\ MgrInit /\ _xvfb = TRUE /\ playwright_ok = TRUE
    /\ env = Environment({}, {}, {TRUE}, {"none"})

\* one subscriber, few units, a session that is started again and again
InitLife ==
    /\ StreamInit /\ LibInit
    /\ scn = Scenario({1}, SliceKinds, LifeUnits, LifeStarts)
    /\ MgrInit /\ _xvfb = TRUE /\ playwright_ok = TRUE
    /\ env = Environment({}, {}, {TRUE}, {"none"})

\* the manager alone, with and without a display pool and an automation
InitMgr ==
    /\ StreamInit /\ LibInit
    /\ scn = Scenario({}, {}, 0, 0)
    /\ MgrInit /\ _xvfb \in BOOLEAN /\ playwright_ok \in BOOLEAN
    /\ env = Environment(Procs, 1..MgrSessions, {TRUE}, {"none"})

\* the manager with a pool and an automation, and more session ids than
\* the pool has displays
InitPool ==
    /\ StreamInit /\ LibInit
    /\ scn = Scenario({}, {}, 0, 0)
    /\ MgrInit /\ _xvfb = TRUE /\ playwright_ok = TRUE
    /\ env = Environment(Procs, SessionIds, {TRUE}, {"none"})

\* the manager with a pool and an automation, fewer calls, teardown and
\* rollback steps that may raise, and lock files left on the filesystem
InitTear ==
    /\ StreamInit /\ LibInit
    /\ scn = Scenario({}, {}, 0, 0)
    /\ MgrInit /\ _xvfb = TRUE /\ playwright_ok = TRUE
    /\ env = Environment(1..TearCalls, 1..MgrSessions, BOOLEAN, LockStates)

Next ==
    \/ StartCall
    \/ StartSpawned
    \/ StartFailed
    \/ Broadcast
    \/ TaskEnd
    \/ TaskCancelled
    \/ StopCall
    \/ StopFfExited
    \/ StopNotify
    \/ \E c \in Clients : Subscribe(c)
    \/ \E c \in Clients : Receive(c)
    \/ \E c \in Clients : Abandon(c)

Spec == Init /\ [][Next]_vars

SpecFan == InitFan /\ [][Next]_vars

NextLife ==
    \/ Next
    \/ StartRejected

SpecLife == InitLife /\ [][NextLife]_vars

\* the event loop runs what is ready: a subscriber whose queue holds an
\* item takes it, a stop() whose encoder has exited goes on, a cancelled
\* task ends.  Calls of start(), stop() and subscribe(), units from the
\* encoder and a caller that abandons its iterator are not forced.
FairLife ==
    /\ \A c \in Clients : WF_vars(Receive(c))
    /\ WF_vars(StopFfExited)
    /\ WF_vars(StopNotify)
    /\ WF_vars(TaskCancelled)

SpecWait == InitLife /\ [][NextLife]_vars /\ FairLife

NextMgr ==
    \/ \E p \in Procs, sid \in SessionIds, url \in BOOLEAN : Create(p, sid, url)
    \/ \E p \in Procs : Phase1(p)
    \/ \E p \in Procs : AllocateDone(p)
    \/ \E p \in Procs : AllocateFailed(p)
    \/ \E p \in Procs : Phase2(p)
    \/ \E p \in Procs : Phase3(p)
    \/ \E p \in Procs : Phase3Failed(p)
    \/ \E p \in Procs : RollbackClose(p)
    \/ \E p \in Procs : RollbackPw(p)
    \/ \E p \in Procs : RollbackRelease(p)
    \/ \E p \in Procs : RollbackRaise(p)
    \/ \E p \in Procs, sid \in SessionIds : ManagerStop(p, sid)
    \/ \E p \in Procs, sid \in SessionIds : Get(p, sid)
    \/ \E p \in Procs : StopSession(p)
    \/ \E p \in Procs : StopBrowser(p)
    \/ \E p \in Procs : StopPw(p)
    \/ \E p \in Procs : StopRelease(p)

SpecMgr == InitMgr /\ [][NextMgr]_vars

SpecTear == InitTear /\ [][NextMgr]_vars

SpecPool == InitPool /\ [][NextMgr]_vars

\* the extractor alone: every stream of at most MaxBytes bytes, in every
\* chunking, with a buffer cap that no stream reaches
InitExt ==
    /\ StreamInit /\ ExtInit(MaxBytes) /\ CfgInit /\ SrcInit /\ GenInit
    /\ PoolInit
    /\ scn = Scenario({}, {}, 0, 0)
    /\ MgrInit /\ _xvfb = TRUE /\ playwright_ok = TRUE
    /\ env = Environment({}, {}, {TRUE}, {"none"})

\* the extractor alone, with a buffer cap that a stream can exceed
InitCap ==
    /\ StreamInit /\ LibInit
    /\ scn = Scenario({}, {}, 0, 0)
    /\ MgrInit /\ _xvfb = TRUE /\ playwright_ok = TRUE
    /\ env = Environment({}, {}, {TRUE}, {"none"})

NextExt ==
    \/ Push
    \/ Flush

SpecExt == InitExt /\ [][NextExt]_vars

SpecCap == InitCap /\ [][NextExt]_vars

\* the configuration alone
NextCfg == NewConfig

SpecCfg == InitCap /\ [][NextCfg]_vars

\* the encoder source alone
NextSrc ==
    \/ \E p \in SrcProcs : SrcStart(p)
    \/ \E p \in SrcProcs : SrcSpawned(p)
    \/ \E p \in SrcProcs : SrcSpawnFailed(p)
    \/ \E p \in SrcProcs : SrcStop(p)
    \/ \E p \in SrcProcs : SrcWaitDone(p)
    \/ \E p \in SrcProcs : SrcTimeout(p)
    \/ \E n \in Children : ChildExits(n)

SpecSrc == InitCap /\ [][NextSrc]_vars

\* the encoder source with its generator: a buffer cap that the units of
\* the encoder do not reach
InitGen ==
    /\ StreamInit /\ ExtInit(GenWrites * 6 + 1) /\ CfgInit /\ SrcInit
    /\ GenInit /\ PoolInit
    /\ scn = Scenario({}, {}, 0, 0)
    /\ MgrInit /\ _xvfb = TRUE /\ playwright_ok = TRUE
    /\ env = Environment({}, {}, {TRUE}, {"none"})

\* the calls of start() and stop() made in the generator scenario
GenProcs == 1..GenCalls

NextGen ==
    \/ \E p \in GenProcs : SessionStart(p)
    \/ \E p \in GenProcs : SrcSpawned(p)
    \/ \E p \in GenProcs : SrcSpawnFailed(p)
    \/ \E p \in GenProcs : SrcStop(p)
    \/ \E p \in GenProcs : SrcWaitDone(p)
    \/ \E p \in GenProcs : SrcTimeout(p)
    \/ \E n \in Children : ChildExits(n)
    \/ \E n \in Children : ChildWrites(n)
    \/ GenOpen
    \/ GenRead
    \/ GenEof
    \/ TaskCancel
    \/ GenCancelled

\* a child that was sent SIGKILL exits
Killed(n) == ChildExits(n) /\ signals[n] # <<>> /\ signals[n][Len(signals[n])] = "KILL"

\* the event loop runs what is ready: a read that can return returns, a
\* cancellation is delivered, the timeout of stop() fires, a killed child
\* exits
FairGen ==
    /\ WF_vars(GenRead)
    /\ WF_vars(GenEof)
    /\ WF_vars(GenCancelled)
    /\ \A p \in GenProcs : WF_vars(SrcTimeout(p))
    /\ \A p \in GenProcs : WF_vars(SrcWaitDone(p))
    /\ \A n \in Children : WF_vars(Killed(n))

SpecGen == InitGen /\ [][NextGen]_vars /\ FairGen

\* the display pool with its processes
NextXvfb ==
    \/ \E p \in PoolProcs : PoolAllocate(p)
    \/ \E p \in PoolProcs : XvfbSpawned(p)
    \/ \E p \in PoolProcs : XvfbSpawnFailed(p)
    \/ \E p \in PoolProcs : Poll(p)
    \/ \E p \in PoolProcs : AllocateTimedOut(p)
    \/ \E p \in PoolProcs : FluxboxSpawned(p)
    \/ \E p \in PoolProcs : FluxboxSpawnFailed(p)
    \/ \E p \in PoolProcs : AllocateRecord(p)
    \/ \E p \in PoolProcs, d \in DisplayNums : PoolRelease(p, d)
    \/ \E p \in PoolProcs : StopWaitDone(p)
    \/ \E p \in PoolProcs : StopTimeout(p)
    \/ \E k \in Pids : XvfbReady(k)
    \/ \E k \in Pids : ProcExits(k)

SpecXvfb == InitCap /\ [][NextXvfb]_vars

(* ------------------------------ claims -------------------------------- *)
Slices == {NAL_TYPE_IDR, NAL_TYPE_NON_IDR}

Joined(c) == sub[c].pc # "idle"

Registered(c) == c \in Range(subscribers)

\* the units waiting in a queue (the sentinel is no unit)
Units(q) == SelectSeq(q, LAMBDA u : u # _SENTINEL)

\* everything that was put into the queue of a subscriber that forwards
\* verbatim: what it has yielded, then what still waits
Enqueued(c) == received[c] \o Units(queue[c])

Compatible(s, t) == IsPrefix(s, t) \/ IsPrefix(t, s)

HasType(s, n, t) == \E j \in 1..n : s[j].type = t

\* C1 (stop-implies-end), stated on states: once stop() has notified, every
\* subscriber that was registered then has ended or still has the sentinel
\* waiting in its queue.  A subscriber for which neither holds is no longer
\* in the subscriber list, so nothing is ever enqueued to it again: it
\* waits in queue.get() for ever unless its caller abandons it.
C1_StopImpliesEnd ==
    \A c \in Clients :
        regAtStop[c] => (sub[c].pc = "done" \/ _SENTINEL \in Range(queue[c]))

\* C2 (late-join snapshot ordering): a subscriber that registered while
\* gop_has_idr was true receives the cache of that moment first, in order;
\* while it runs, that cache is a prefix of all that was put in its queue, so
\* no later unit is ahead of a snapshot unit.
C2_LateJoinSnapshotFirst ==
    \A c \in Clients :
        (Joined(c) /\ idrAtJoin[c]) =>
            /\ Compatible(received[c], cacheAtJoin[c])
            /\ sub[c].pc = "get" => IsPrefix(cacheAtJoin[c], Enqueued(c))

\* C2 witness: a subscriber joined on a cache [SPS, PPS, IDR, ...], received
\* all of it and then a live unit.
C2_Witness ==
    \E c \in Clients :
        /\ idrAtJoin[c]
        /\ Len(cacheAtJoin[c]) >= 3
        /\ cacheAtJoin[c][1].type = NAL_TYPE_SPS
        /\ cacheAtJoin[c][2].type = NAL_TYPE_PPS
        /\ cacheAtJoin[c][3].type = NAL_TYPE_IDR
        /\ Len(received[c]) > Len(cacheAtJoin[c])

\* the slices among the encoder's output from the one at position i on
SlicesFrom(i) == Filter(SubSeq(emitted, i, Len(emitted)), Slices)

ParamsBeforeEveryIdr ==
    \A c \in Clients :
        \A i \in 1..Len(received[c]) :
            received[c][i].type = NAL_TYPE_IDR =>
                /\ HasType(received[c], i - 1, NAL_TYPE_SPS)
                /\ HasType(received[c], i - 1, NAL_TYPE_PPS)

\* the encoder emitted an SPS and a PPS before the first IDR of its output
ParamsBeforeFirstIdr ==
    \A i \in 1..Len(emitted) :
        (emitted[i].type = NAL_TYPE_IDR /\ ~HasType(emitted, i - 1, NAL_TYPE_IDR)) =>
            /\ HasType(emitted, i - 1, NAL_TYPE_SPS)
            /\ HasType(emitted, i - 1, NAL_TYPE_PPS)

\* C4 as claimed (decodability prefix for every order of the encoder's
\* output): whenever a subscriber receives an IDR, it has received an SPS and
\* a PPS before it.
C4_DecodabilityAnyOrder == ParamsBeforeEveryIdr

\* C4 as amended: the same, for every output of the encoder in which an SPS
\* and a PPS precede the first IDR.
C4_DecodabilityPrefix == ParamsBeforeFirstIdr => ParamsBeforeEveryIdr

\* C4 witness: a subscriber in sync-up mode received, ahead of its first IDR,
\* the SPS and the PPS that the encoder had emitted before it subscribed.
C4_Witness ==
    \E c \in Clients :
        /\ Joined(c)
        /\ ~idrAtJoin[c]
        /\ Len(received[c]) >= 3
        /\ received[c][1].type = NAL_TYPE_SPS /\ received[c][1].id <= joinAt[c]
        /\ received[c][2].type = NAL_TYPE_PPS /\ received[c][2].id <= joinAt[c]
        /\ received[c][3].type = NAL_TYPE_IDR /\ received[c][3].id > joinAt[c]

\* C5 (sync-up drop): a subscriber that registered while gop_has_idr was
\* false was given an empty snapshot, has received no non-IDR slice that is
\* not preceded by an IDR, and has received nothing if the encoder emitted
\* nothing since.
C5_SyncUpDrop ==
    \A c \in Clients :
        (Joined(c) /\ ~idrAtJoin[c]) =>
            /\ snap[c] = <<>>
            /\ \A i \in 1..Len(received[c]) :
                   received[c][i].type = NAL_TYPE_NON_IDR =>
                       HasType(received[c], i - 1, NAL_TYPE_IDR)
            /\ joinAt[c] = Len(emitted) => received[c] = <<>>

\* C5 witness: the subscriber joined with SPS and PPS known, a non-IDR slice
\* was broadcast to it, and it received a later IDR but not that slice.
C5_Witness ==
    \E c \in Clients :
        /\ Joined(c)
        /\ ~idrAtJoin[c]
        /\ HasType(emitted, joinAt[c], NAL_TYPE_SPS)
        /\ HasType(emitted, joinAt[c], NAL_TYPE_PPS)
        /\ \E i \in (joinAt[c] + 1)..Len(emitted) :
               /\ emitted[i].type = NAL_TYPE_NON_IDR
               /\ emitted[i] \notin Range(received[c])
               /\ \E k \in 1..Len(received[c]) :
                      /\ received[c][k].type = NAL_TYPE_IDR
                      /\ received[c][k].id > i

\* C6 (ordering per subscriber): what a subscriber received is a subsequence
\* of the encoder's output: each received unit is a unit of the output, and
\* the received units are in increasing position (none before an earlier one,
\* none twice).
C6_OrderingPerSubscriber ==
    \A c \in Clients :
        \A i \in 1..Len(received[c]) :
            /\ received[c][i].id \in 1..Len(emitted)
            /\ received[c][i] = emitted[received[c][i].id]
            /\ \A j \in 1..(i - 1) : received[c][j].id < received[c][i].id

\* the subscriber's generator leaves in this step
Exits(c) == sub[c].pc # "done" /\ sub'[c].pc = "done"

\* C7 (subscriber cleanup): a subscriber whose iterator has exited is not in
\* the subscriber list; and the step in which it exits takes out its own
\* queue and no other, so the count drops by one if it was registered and is
\* unchanged if stop() had already cleared the list.
C7_SubscriberCleanup ==
    /\ [](\A c \in Clients : sub[c].pc = "done" => ~Registered(c))
    /\ [][\A c \in Clients :
              Exits(c) =>
                  /\ \A d \in Clients \ {c} : Registered(d) <=> d \in Range(subscribers')
                  /\ Len(subscribers') =
                         Len(subscribers) - (IF Registered(c) THEN 1 ELSE 0)]_vars

\* C7 witness: one subscriber has exited while another is still registered.
C7_Witness ==
    \E c, d \in Clients :
        /\ sub[c].pc = "done"
        /\ joinAt[c] <= joinAt[d]
        /\ Registered(d)
        /\ sub[d].pc = "get"

\* the unit the broadcast loop takes in this step
Taken == emitted'[Len(emitted')]

\* C8 (broadcast with drop-on-full): a step that takes a unit from the
\* encoder appends it once to the queue of every registered subscriber that
\* has room and leaves every other queue as it is; and two registered
\* subscribers that forward verbatim and lost no unit hold, from the later
\* of their registrations on, the same units.
C8_BroadcastDropOnFull ==
    /\ [][Len(emitted') > Len(emitted) =>
              /\ emitted' = Append(emitted, Taken)
              /\ \A c \in Clients :
                     queue'[c] = IF Registered(c) /\ Len(queue[c]) < maxsize[c]
                                 THEN Append(queue[c], Taken)
                                 ELSE queue[c]]_vars
    /\ [](\A c, d \in Clients :
              (/\ Registered(c) /\ Registered(d)
               /\ sub[c].pc = "get" /\ sub[d].pc = "get"
               /\ sub[c].got_idr /\ sub[d].got_idr /\ idrAtJoin[c] /\ idrAtJoin[d]
               /\ ~dropped[c] /\ ~dropped[d]
               /\ joinAt[c] <= joinAt[d]) =>
                  SelectSeq(Enqueued(c), LAMBDA u : u.id > joinAt[d])
                      = SelectSeq(Enqueued(d), LAMBDA u : u.id > joinAt[d]))

\* C8 witness: a unit was dropped for one registered subscriber, whose queue
\* was full, and is in the queue of its peer.
C8_Witness ==
    \E c, d \in Clients :
        /\ Registered(c) /\ Registered(d)
        /\ dropped[c]
        /\ Len(queue[c]) = maxsize[c]
        /\ ~dropped[d]
        /\ emitted # <<>>
        /\ emitted[Len(emitted)] \in Range(queue[d])
        /\ emitted[Len(emitted)] \notin Range(queue[c])

(* ----------------------- claims on the manager ------------------------ *)
\* the step in which create() of call p raises to its caller
CreateRaises(p) ==
    /\ call[p].pc # "raised"
    /\ call'[p].op = "create" /\ call'[p].pc = "raised"

\* after the step no map holds an entry that call p made
NoEntryOf(p) ==
    LET c == call'[p] IN
    /\ _sessions'[c.sid] # p
    /\ _browsers'[c.sid] # p
    /\ \A n \in DisplayNums : xvfb_displays'[n] # p
    /\ c.err # "ValueError" =>
         /\ _sessions'[c.sid] = 0
         /\ _browsers'[c.sid] = 0
         /\ _displays'[c.sid] = 0

\* C9 as stated: Atomic creation: if create raises in any phase, then
\* afterwards none of the three manager maps holds an entry made by that
\* call for the session_id, and the display pool's active count equals its
\* value before the call.
C9_AtomicCreation ==
    [][\A p \in Procs : CreateRaises(p) =>
          /\ NoEntryOf(p)
          /\ Cardinality(ActiveDisplays') = Cardinality(call'[p].before)]_vars

\* C9, amended: if create raises in any phase, then afterwards none of the
\* three manager maps holds an entry made by that call for the session_id,
\* and the display pool holds exactly the displays it held before the call
\* less those that concurrent stop calls released while the call ran.
C9_AtomicCreationNet ==
    [][\A p \in Procs : CreateRaises(p) =>
          /\ NoEntryOf(p)
          /\ ActiveDisplays' = call'[p].before \ call'[p].gone]_vars

\* a create that recorded a browsers entry and a display has raised after
\* its rollback, and a concurrent stop released a display meanwhile
C9_Witness ==
    \E p \in Procs :
        /\ call[p].op = "create" /\ call[p].pc = "raised"
        /\ call[p].err = "Error:start_session"
        /\ call[p].browser /\ call[p].display # 0
        /\ call[p].gone # {}
        /\ _browsers[call[p].sid] = 0
        /\ ActiveDisplays = call[p].before \ call[p].gone

\* the compensating steps that the resources a call acquired ask for
Compensation(c) ==
    (IF c.brLaunched THEN <<"browser.close">> ELSE <<>>)
    \o (IF c.pwStarted THEN <<"pw.stop">> ELSE <<>>)
    \o (IF c.display # 0 THEN <<"release">> ELSE <<>>)

\* C10: Rollback error boundaries: when create fails after resources were
\* acquired, the compensating steps run in the order browser.close,
\* automation stop, display release, each whatever the outcome of the
\* earlier ones, and the error that reaches the caller is the original
\* creation error.
C10_RollbackBoundaries ==
    \A p \in Procs :
        (call[p].op = "create" /\ call[p].pc = "raised") =>
            /\ call[p].steps = Compensation(call[p])
            /\ call[p].raised = call[p].err

\* the number of times a step appears in a log
Count(seq, x) == Cardinality({i \in 1..Len(seq) : seq[i] = x})

\* the stop calls that popped the session made by create call c
StopsOf(c) == {p \in Procs : call[p].op = "stop" /\ call[p].session = c}

\* the create calls of a session id that returned a session
Created(sid) ==
    {c \in Procs : call[c].op = "create" /\ call[c].sid = sid
                   /\ call[c].pc = "returned"}

TeardownSteps == {"session.stop", "browser.close", "pw.stop", "release"}

\* C11: Idempotent manager stop: of the stop calls on one existing session
\* exactly one pops it and completes, every other one raises KeyError;
\* session.stop, browser.close, the automation stop and the pool release
\* are each invoked at most once for that session.
C11_IdempotentManagerStop ==
    \A c \in Procs :
        /\ Cardinality(StopsOf(c)) <= 1
        /\ \A p \in StopsOf(c) :
              /\ call[p].pc # "raised"
              /\ \A step \in TeardownSteps : Count(call[p].steps, step) <= 1
              /\ Created(call[p].sid) = {c} =>
                    \A q \in Procs \ {p} :
                        (call[q].op = "stop" /\ call[q].sid = call[p].sid)
                            => call[q].raised = "KeyError"

\* two stop calls on the session a create returned: one tore it down and
\* returned, the other raised KeyError
C11_Witness ==
    \E c, p, q \in Procs :
        /\ p # q /\ Created(call[p].sid) = {c}
        /\ p \in StopsOf(c) /\ call[p].pc = "returned"
        /\ call[p].steps =
               <<"session.stop", "browser.close", "pw.stop", "release">>
        /\ call[q].op = "stop" /\ call[q].sid = call[p].sid
        /\ call[q].raised = "KeyError"

\* the step in which call p enters operation op
Enters(p, op) == call[p].op = "none" /\ call'[p].op = op

\* the step leaves the maps, the pool and every other call as they were
NoSideEffect(p) ==
    /\ UNCHANGED <<_sessions, _browsers, _displays, xvfb_displays,
                   mgr_lock, xvfb_lock>>
    /\ \A q \in Procs \ {p} : call'[q] = call[q]

\* C12: Duplicate create: create with a session_id already in the session
\* map raises ValueError and leaves the existing session, the three maps and
\* the display pool unchanged (no display allocated, no browser launched);
\* two creates of one id do not both succeed unless a stop came between.
C12_DuplicateCreate ==
    /\ [][\A p \in Procs :
            (Enters(p, "create") /\ _sessions[call'[p].sid] # 0) =>
                /\ call'[p].raised = "ValueError"
                /\ call'[p].pc = "raised"
                /\ NoSideEffect(p)
                /\ call'[p].display = 0 /\ call'[p].num = 0
                /\ ~call'[p].pwStarted /\ ~call'[p].brLaunched]_vars
    /\ [](\A p, q \in Procs :
            (p # q /\ p \in Created(call[q].sid) /\ q \in Created(call[p].sid))
                => (StopsOf(p) \cup StopsOf(q)) # {})

\* a create returned a session and a second create of the id raised
\* ValueError while the session was in the map
C12_Witness ==
    \E p, q \in Procs :
        /\ p # q /\ call[p].op = "create" /\ call[p].pc = "returned"
        /\ call[q].op = "create" /\ call[q].sid = call[p].sid
        /\ call[q].raised = "ValueError"
        /\ _sessions[call[p].sid] = p

\* C13: Not-found has no side effects: stop of an unknown session_id raises
\* KeyError and get of an unknown id returns nothing; neither changes a
\* manager map, a session, or the display pool.
C13_NotFoundNoSideEffects ==
    [][\A p \in Procs :
          /\ (Enters(p, "stop") /\ _sessions[call'[p].sid] = 0) =>
                 /\ call'[p].raised = "KeyError"
                 /\ call'[p].pc = "raised"
                 /\ call'[p].steps = <<>>
                 /\ NoSideEffect(p)
          /\ (Enters(p, "stop") /\ call'[p].raised = "KeyError") =>
                 NoSideEffect(p)
          /\ (Enters(p, "get") /\ _sessions[call'[p].sid] = 0) =>
                 /\ call'[p].session = 0
                 /\ NoSideEffect(p)]_vars

\* a stop of an id that is not in the map raised KeyError and a get of it
\* returned nothing, while another session is in the maps
C13_Witness ==
    \E p, q \in Procs, s \in SessionIds :
        /\ call[p].op = "stop" /\ call[p].raised = "KeyError"
        /\ call[q].op = "get" /\ call[q].session = 0
        /\ call[q].sid = call[p].sid /\ s # call[p].sid
        /\ _sessions[s] # 0 /\ _displays[s] # 0

(* ----------------------- claims on the lifecycle ---------------------- *)
\* the status changes the state machine allows
Transitions ==
    {<<"created", "starting">>, <<"starting", "streaming">>,
     <<"streaming", "stopping">>, <<"stopping", "stopped">>,
     <<"stopped", "starting">>}

\* a step follows the state machine: the status stays, or moves along one
\* transition, or along two within a stop() that does not suspend
Follows(a, b) ==
    \/ a = b
    \/ <<a, b>> \in Transitions
    \/ b = "stopped" /\ <<a, "stopping">> \in Transitions

\* C14: Session state machine: the status only ever changes along
\* created->starting, starting->streaming, streaming->stopping,
\* stopping->stopped and stopped->starting; start() in any state other than
\* created or stopped raises and changes nothing.
C14_SessionStateMachine ==
    [][/\ Follows(status, status')
       /\ (starts' # starts /\ status \notin {"created", "stopped"}) =>
              UNCHANGED <<status, ffRunning, ffProc, task, startPc>>]_vars

\* C15: in every reachable state, status = streaming implies that the
\* encoder process is alive and that a broadcast task is running, also after
\* the encoder's stdout reached end-of-file.
C15_StreamingImpliesLive ==
    status = "streaming" => (ffProc = "alive" /\ task = "running")

(* ------------------------- claims on the cache ------------------------ *)
\* the last position below or at n of a unit of type t in the encoder's
\* output, 0 when there is none
LastOf(t, n) ==
    LET at == {i \in 1..n : emitted[i].type = t}
    IN  IF at = {} THEN 0 ELSE CHOOSE i \in at : \A j \in at : j <= i

\* the units of the encoder's output at the positions given, skipping 0
At(positions) ==
    LET pick(i) == IF i = 0 THEN <<>> ELSE <<emitted[i]>>
    IN  pick(positions[1]) \o pick(positions[2]) \o pick(positions[3])

\* the cache the last IDR asks for: the parameter sets that were current
\* when it arrived, the IDR, and the non-IDR slices since
GopOf(i) ==
    At(<<LastOf(NAL_TYPE_SPS, i - 1), LastOf(NAL_TYPE_PPS, i - 1), i>>)
    \o Filter(SubSeq(emitted, i + 1, Len(emitted)), {NAL_TYPE_NON_IDR})

\* C16 as stated: GOP head invariant: if gop_has_idr is true then gop_nals
\* begins with [SPS, PPS, IDR], the parameter sets being those current when
\* that IDR arrived, and each new IDR replaces the whole cached GOP.
C16_GopHead ==
    gop_has_idr =>
        LET i == LastOf(NAL_TYPE_IDR, Len(emitted)) IN
        /\ i > 0
        /\ LastOf(NAL_TYPE_SPS, i - 1) > 0
        /\ LastOf(NAL_TYPE_PPS, i - 1) > 0
        /\ gop_nals = GopOf(i)

\* C16, amended: if gop_has_idr is true then gop_nals begins with the SPS
\* and the PPS that were current when the cached IDR arrived, each present
\* only if one had arrived by then, followed by that IDR; each new IDR
\* replaces the whole cached GOP by that head.
C16_GopHeadOfArrived ==
    gop_has_idr =>
        LET i == LastOf(NAL_TYPE_IDR, Len(emitted)) IN
        /\ i > 0
        /\ gop_nals = GopOf(i)

\* a second IDR has replaced a cached GOP that held slices, and the SPS in
\* the head is not the first one the encoder emitted
C16_Witness ==
    /\ gop_has_idr
    /\ Len(gop_nals) = 3
    /\ gop_nals[1].type = NAL_TYPE_SPS /\ gop_nals[2].type = NAL_TYPE_PPS
    /\ gop_nals[3].type = NAL_TYPE_IDR
    /\ \E j \in 1..(gop_nals[3].id - 1) :
          emitted[j].type \in {NAL_TYPE_IDR, NAL_TYPE_SPS}
          /\ j # gop_nals[1].id

RECURSIVE Bytes(_)
\* the total length of a list of units
Bytes(s) == IF s = <<>> THEN 0 ELSE Head(s).len + Bytes(Tail(s))

\* C17: GOP size cap: whenever a cache update leaves gop_bytes above the
\* cap the cache is cleared (gop_nals empty, gop_bytes 0, gop_has_idr false)
\* and gop_has_idr stays false until the next IDR; hence after every cache
\* update gop_bytes is at most the cap and no subscribe() snapshots a
\* larger GOP.
C17_GopSizeCap ==
    /\ [](/\ gop_bytes <= MAX_GOP_BYTES
          /\ gop_bytes = Bytes(gop_nals)
          /\ ~gop_has_idr => (gop_nals = <<>> /\ gop_bytes = 0)
          /\ \A c \in Clients : Bytes(snap[c]) <= MAX_GOP_BYTES)
    /\ [][/\ (Len(emitted') > Len(emitted) /\ gop_has_idr
              /\ emitted'[Len(emitted')].type = NAL_TYPE_NON_IDR
              /\ gop_bytes + emitted'[Len(emitted')].len > MAX_GOP_BYTES)
                 => (gop_nals' = <<>> /\ gop_bytes' = 0 /\ ~gop_has_idr')
          /\ (~gop_has_idr /\ gop_has_idr')
                 => (/\ Len(emitted') > Len(emitted)
                     /\ emitted'[Len(emitted')].type = NAL_TYPE_IDR)]_vars

\* the cache was cleared by the cap, a subscriber joined on the empty cache,
\* and the next IDR has filled the cache again
C17_Witness ==
    /\ gop_has_idr
    /\ \E c \in Clients, i \in 1..Len(emitted) :
          /\ Joined(c) /\ ~idrAtJoin[c] /\ snap[c] = <<>>
          /\ emitted[i].type = NAL_TYPE_IDR /\ i < joinAt[c]

(* ------------------------- claims on the pool ------------------------- *)
\* the step in which allocate() of call p chooses its display number
Chooses(p) == call[p].pc = "phase1" /\ call'[p].pc = "allocate"

\* C18: Display pool invariants: the pool holds at most max entries, every
\* allocated id lies in [base, base+max), no two sessions hold the same id,
\* and allocate returns the smallest id of that range not in use; allocate
\* on a full pool fails with capacity-exceeded and leaves the pool unchanged.
C18_DisplayPool ==
    /\ [](/\ active_count <= max_displays
          /\ \A s \in SessionIds : _displays[s] # 0 =>
                /\ _displays[s] >= base_display
                /\ _displays[s] < base_display + max_displays
                /\ _displays[s] \in ActiveDisplays
                /\ \A t \in SessionIds \ {s} : _displays[t] # _displays[s])
    /\ [][\A p \in Procs :
            /\ Chooses(p) =>
                  /\ call'[p].num >= base_display
                  /\ call'[p].num < base_display + max_displays
                  /\ call'[p].num \notin ActiveDisplays
                  /\ \A m \in base_display..(call'[p].num - 1) :
                        m \in ActiveDisplays
            /\ (call[p].pc = "allocate" /\ call'[p].pc = "phase2") =>
                  /\ call'[p].display = call[p].num
                  /\ ActiveDisplays' = ActiveDisplays \cup {call[p].num}
            /\ (call[p].pc = "phase1" /\ _xvfb
                /\ active_count >= max_displays) =>
                  /\ call'[p].err = "RuntimeError:max"
                  /\ call'[p].display = 0
                  /\ UNCHANGED <<xvfb_displays, xvfb_lock>>]_vars

\* two sessions hold the two displays of the pool, and a third create was
\* refused for capacity
C18_Witness ==
    \E p \in Procs, s, t \in SessionIds :
        /\ call[p].raised = "RuntimeError:max"
        /\ _displays[s] = base_display /\ _displays[t] = base_display + 1
        /\ active_count = max_displays

\* C19: Stale-lock handling: during allocate, if the lock file of the chosen
\* display id names a PID that is alive, allocation for that id is aborted
\* (no display server is spawned on it and no pool entry is recorded for
\* it); only when the PID is not alive are the lock and the socket deleted
\* and allocation continues.
C19_StaleLock ==
    \A p \in Procs :
        /\ call[p].lock = "alive" =>
              /\ ~call[p].spawned
              /\ ~call[p].unlinked
              /\ xvfb_displays[call[p].num] # p
        /\ call[p].unlinked => call[p].lock = "stale"

(* ------------------------ claims on teardown -------------------------- *)
\* the steps the teardown of what a stop call popped consists of
Teardown(c) ==
    <<"session.stop">>
    \o (IF c.browser_info # 0 THEN <<"browser.close", "pw.stop">> ELSE <<>>)
    \o (IF c.display # 0 /\ _xvfb THEN <<"release">> ELSE <<>>)

\* C20: Teardown order: stop removes the id from all three maps in one
\* atomic step, then runs session.stop, browser.close, automation stop and
\* pool release in that order; a failure in any of these steps does not
\* prevent the later steps, and stop still returns normally.
C20_TeardownOrder ==
    /\ [][\A p \in Procs :
            (Enters(p, "stop") /\ _sessions[call'[p].sid] # 0) =>
                /\ _sessions'[call'[p].sid] = 0
                /\ _browsers'[call'[p].sid] = 0
                /\ _displays'[call'[p].sid] = 0
                /\ call'[p].steps = <<>>
                /\ \A s \in SessionIds \ {call'[p].sid} :
                      /\ _sessions'[s] = _sessions[s]
                      /\ _browsers'[s] = _browsers[s]
                      /\ _displays'[s] = _displays[s]]_vars
    /\ [](\A p \in Procs :
            (call[p].op = "stop" /\ call[p].session # 0) =>
                /\ IsPrefix(call[p].steps, Teardown(call[p]))
                /\ call[p].pc # "raised" /\ call[p].raised = ""
                /\ call[p].pc = "returned" =>
                      call[p].steps = Teardown(call[p]))

\* a stop returned after all four steps although the first three raised
C20_Witness ==
    \E p \in Procs :
        /\ call[p].op = "stop" /\ call[p].pc = "returned"
        /\ call[p].steps =
               <<"session.stop", "browser.close", "pw.stop", "release">>
        /\ {"session.stop", "browser.close", "pw.stop"} \subseteq call[p].failed

(* ------------------------------ C21 ---------------------------------- *)
\* a call that is suspended on browser I/O (the launch and navigation of
\* phase 2, browser.close in the handler or in stop) or on encoder I/O
\* (session.start in phase 3, session.stop in stop)
SuspendedOnIO(c) ==
    \/ c.op = "create" /\ c.pc = "phase2" /\ c.url /\ playwright_ok
    \/ c.op = "create" /\ c.pc = "phase3"
    \/ c.op = "create" /\ c.pc = "rollback" /\ c.browser
    \/ c.op = "stop" /\ c.pc \in {"stop_session", "stop_browser"}

\* C21: no call holds the manager lock or the pool lock while it is
\* suspended on encoder I/O or on browser I/O
C21_NoLockAcrossIO ==
    \A p \in Procs :
        SuspendedOnIO(call[p]) => mgr_lock # p /\ xvfb_lock # p

(* ------------------------------ C22 ---------------------------------- *)
\* C22: in every reachable state a session id is a key of the browser map
\* or of the display map only if it is a key of the session map
C22_MapConsistency ==
    \A s \in SessionIds :
        (_browsers[s] # 0 \/ _displays[s] # 0) => _sessions[s] # 0

(* --------------------------- C23 .. C25, C30 -------------------------- *)
\* the stream was pushed and then flushed once
Flushed == flushes = 1 /\ last_op = "flush"

\* one call of push() with the whole stream, then flush()
OneShot(S) ==
    LET r == push(<<>>, S)
    IN  r.out \o flush(r.buf).out

\* a 4-byte and a 3-byte start code at offset p of S
IsCode4(S, p) == slice(S, p, p + 4) = START_CODE_4

IsCode3(S, p) == slice(S, p, p + 3) = START_CODE_3

\* the offsets of the start codes of S; where 00 00 00 01 matches, the
\* 3-byte code one byte later is the same code
StartCodes(S) ==
    {p \in 0..(Len(S) - 1) :
        \/ IsCode4(S, p)
        \/ IsCode3(S, p) /\ ~(p > 0 /\ IsCode4(S, p - 1))}

\* a set of numbers in increasing order
RECURSIVE Sorted(_)
Sorted(P) ==
    IF P = {} THEN <<>>
    ELSE LET m == CHOOSE x \in P : \A y \in P : x <= y
         IN  <<m>> \o Sorted(P \ {m})

\* a unit with its start code in the 4-byte form
With4(u) == IF IsCode4(u, 0) THEN u ELSE START_CODE_4 \o slice(u, 3, Len(u))

\* the units of S: from each start code to the next one or to the end of S,
\* in the 4-byte form, without the oversize ones
UnitsOf(S) ==
    LET p == Sorted(StartCodes(S))
        k == Len(p)
        stop(i) == IF i < k THEN p[i + 1] ELSE Len(S)
    IN  SelectSeq([i \in 1..k |-> With4(slice(S, p[i], stop(i)))],
                  LAMBDA u : Len(u) <= max_nal_bytes)

\* C23: whatever the chunking, the results of the push() calls followed by
\* that of flush() are the units of the stream, each in the 4-byte form
C23_FramingLaw == Flushed => results = UnitsOf(pushed)

\* C24 as stated: pushing a stream in chunks and flushing emits what
\* pushing it in one call and flushing emits
C24_ChunkingIndependence == Flushed => results = OneShot(pushed)

\* C24: pushing a stream that is not longer than the buffer cap in chunks
\* and flushing emits what pushing it in one call and flushing emits
C24_ChunkingIndependenceWithinCap ==
    (Flushed /\ Len(pushed) <= _max)
        => results = OneShot(pushed)

\* a stream within the cap was pushed in several chunks, the last of which
\* completed a unit, and flushed; it holds two units
C24_Witness ==
    /\ Flushed /\ Len(pushed) <= _max
    /\ pushes >= 2
    /\ Len(results) >= 2

\* C25: every unit that push() or flush() returned begins with 00 00 00 01
C25_Normalization ==
    \A i \in 1..Len(results) : slice(results[i], 0, 4) = START_CODE_4

\* C30: flush() returns the retained tail as one unit if and only if the
\* tail has at least 5 bytes and begins with a start code, otherwise
\* nothing; the buffer is empty afterwards
C30_Flush ==
    last_op = "flush" =>
        /\ _buf = <<>>
        /\ IF Len(tail) >= 5 /\ (IsCode3(tail, 0) \/ IsCode4(tail, 0))
           THEN ret = <<With4(tail)>>
           ELSE ret = <<>>

(* ------------------------------ C26 ---------------------------------- *)
\* C26: a StreamConfig built with no arguments has display ':99', width
\* 1280, height 720, framerate 5, bitrate '500k' and gop_size 10; a field
\* that is passed has the value passed and changes no other field
C26_ConfigDefaults ==
    /\ kwargs = <<>> =>
         /\ config["display"] = ":99"
         /\ config["width"] = 1280
         /\ config["height"] = 720
         /\ config["framerate"] = 5
         /\ config["bitrate"] = "500k"
         /\ config["gop_size"] = 10
    /\ \A f \in Fields :
         config[f] = IF f \in DOMAIN kwargs THEN kwargs[f]
                     ELSE StreamConfig(<<>>)[f]

(* ------------------------------ C27 ---------------------------------- *)
\* the last stop() call found the session streaming and has returned, and
\* start() was not called since
StoppedFromStreaming ==
    stopFrom = "streaming" /\ stopPc = "idle" /\ stopRet = starts

\* the step in which stop() posts the sentinels and returns
StopReturns == stopRet' # stopRet \/ (stopPc # "idle" /\ stopPc' = "idle")

\* an item is put into the client's queue: what the queue holds afterwards
\* is not what is left of it when items are taken from its head
Enqueues(c) ==
    \A n \in 0..Len(queue[c]) :
        queue'[c] # SubSeq(queue[c], n + 1, Len(queue[c]))

Takes == Len(emitted') = Len(emitted) + 1

\* the unit it takes
Taken1 == emitted'[Len(emitted')]

\* the unit is offered to every registered subscriber
Offered(nal) ==
    \A c \in Range(subscribers) :
        queue'[c] = put_nowait(queue[c], maxsize[c], nal)

\* C28: a unit that is no SPS, PPS, IDR or non-IDR slice, and a non-IDR
\* slice that arrives while gop_has_idr is false, change no cache field and
\* are still offered to every subscriber; an SPS changes only last_sps and
\* a PPS only last_pps
C28_CacheFrame ==
    [][Takes =>
        LET nal == Taken1
            t == nal_type(nal)
        IN  /\ (t \notin {NAL_TYPE_SPS, NAL_TYPE_PPS, NAL_TYPE_IDR,
                          NAL_TYPE_NON_IDR}
                \/ (t = NAL_TYPE_NON_IDR /\ ~gop_has_idr))
                 => /\ <<last_sps', last_pps', gop_nals', gop_bytes',
                         gop_has_idr'>>
                      = <<last_sps, last_pps, gop_nals, gop_bytes,
                          gop_has_idr>>
                    /\ Offered(nal)
            /\ t = NAL_TYPE_SPS
                 => /\ last_sps' = nal
                    /\ <<last_pps', gop_nals', gop_bytes', gop_has_idr'>>
                      = <<last_pps, gop_nals, gop_bytes, gop_has_idr>>
            /\ t = NAL_TYPE_PPS
                 => /\ last_pps' = nal
                    /\ <<last_sps', gop_nals', gop_bytes', gop_has_idr'>>
                      = <<last_sps, gop_nals, gop_bytes, gop_has_idr>>
      ]_vars

\* a unit of another type was broadcast after an IDR: it waits in the
\* subscriber's queue and is not in the cached GOP; a parameter set arrived
\* after the IDR and is not in the cached GOP either
C28_Witness ==
    /\ Len(emitted) >= 3
    /\ gop_has_idr
    /\ \E i \in 1..Len(emitted) :
         /\ emitted[i].type = NAL_TYPE_SEI
         /\ emitted[i] \notin Range(gop_nals)
         /\ emitted[i] \in Range(queue[1])
    /\ \E i \in 1..Len(emitted) :
         /\ emitted[i].type = NAL_TYPE_SPS
         /\ emitted[i] = last_sps
         /\ emitted[i] \notin Range(gop_nals)

(* ------------------------------ C29 ---------------------------------- *)
\* the client has called subscribe() and a queue was made for it
HasQueue(c) == sub[c].pc # "idle"

\* C29: a subscriber's queue has capacity max(DEFAULT_QUEUE_SIZE,
\* |snapshot| + DEFAULT_QUEUE_SIZE); after the snapshot is enqueued it holds
\* the whole snapshot and at least DEFAULT_QUEUE_SIZE slots are free; a
\* queue is never longer than its capacity
C29_QueueBound ==
    /\ [](\A c \in Clients : HasQueue(c) =>
            /\ maxsize[c] >= DEFAULT_QUEUE_SIZE
            /\ maxsize[c] >= Len(snap[c]) + DEFAULT_QUEUE_SIZE
            /\ maxsize[c] \in {DEFAULT_QUEUE_SIZE,
                               Len(snap[c]) + DEFAULT_QUEUE_SIZE}
            /\ Len(queue[c]) <= maxsize[c])
    /\ [][\A c \in Clients : (~HasQueue(c) /\ HasQueue(c)') =>
            /\ queue'[c] = snap'[c]
            /\ c \in Range(subscribers')
            /\ maxsize'[c] - Len(queue'[c]) >= DEFAULT_QUEUE_SIZE]_vars

\* a subscriber joined with a snapshot longer than the default capacity, and
\* its queue is full
C29_Witness ==
    /\ HasQueue(1)
    /\ Len(snap[1]) > DEFAULT_QUEUE_SIZE
    /\ Len(queue[1]) = maxsize[1]

(* ------------------------------ C31 ---------------------------------- *)
\* the call begins in this step
SrcEnters(p, op) == src[p].op = "none" /\ src'[p].op = op

\* the stop() call returns in this step
SrcStopReturns(p) ==
    src'[p].op = "stop" /\ src'[p].pc = "returned" /\ src[p].pc # "returned"

Reading == gen.pc = "reading"

\* C32: stream() ends once the stdout of the child is at EOF, once stop()
\* was called, or once its consumer task is cancelled: a generator that
\* waits in its read with the child exited, with _running cleared or with
\* a cancellation requested leaves the read for good.  An ended generator
\* has flushed the extractor exactly once, and what it yielded is, in
\* order, what the extractor makes of the bytes it read: the units of the
\* pushes followed by the flushed tail.  Until then it has yielded the
\* units of the pushes.
C32_StreamEnds ==
    /\ [](gen.pc = "ended" =>
            /\ gen.flushed = 1
            /\ gen.yielded = OneShot(gen.read))
    /\ [](Reading =>
            /\ gen.flushed = 0
            /\ gen.yielded = push(<<>>, gen.read).out)
    /\ ((Reading /\ (child[gen.fd] = "exited" \/ ~_running \/ gen.cancel))
           ~> gen.pc = "ended")

\* generators have ended at EOF, after stop() and by cancellation, one of
\* them after it yielded a unit from a push and another unit as the
\* flushed tail
C32_Witness ==
    /\ gen.pc = "ended"
    /\ Len(gen.yielded) = 2
    /\ gen.yielded[2] = <<0, 0, 0, 1, 2, 2>>
    /\ gen.cancel
    /\ ~_running


(* ------------------------------- C33 ---------------------------------- *)

\* allocate() of call p raises in this step
AllocateRaises(p) ==
    /\ pcall'[p].op = "allocate"
    /\ pcall'[p].pc = "raised" /\ pcall[p].pc # "raised"

\* C33: allocate() probes the readiness of the display at most
\* _POLL_MAX_ATTEMPTS times; when it raises after it has spawned the
\* display server (the readiness timed out, or a later step such as the
\* spawn of the window manager failed), that server has exited, the lock
\* file of the display does not name it, and the pool has no entry for
\* the display.
C33_AllocateCleanup ==
    [][\A p \in PoolProcs :
          /\ pcall'[p].polls <= _POLL_MAX_ATTEMPTS
          /\ (AllocateRaises(p) /\ pcall'[p].xvfb # 0) =>
                /\ proc'[pcall'[p].xvfb].state = "exited"
                /\ lock_file'[pcall'[p].display] # pcall'[p].xvfb
                /\ pool_displays'[pcall'[p].display] = <<>>]_vars


(* ------------------------------- C34 ---------------------------------- *)

\* call p enters release() in this step
ReleaseEnters(p) == pcall[p].op = "none" /\ pcall'[p].op = "release"

\* release() of call p returns in this step
ReleaseReturns(p) ==
    /\ pcall'[p].op = "release"
    /\ pcall'[p].pc = "returned" /\ pcall[p].pc # "returned"

\* signal sig is sent to process k in this step
Sent(k, sig) ==
    /\ Len(proc'[k].signals) = Len(proc[k].signals) + 1
    /\ proc'[k].signals[Len(proc'[k].signals)] = sig

\* C34: release(display) removes the entry of the pool in its first step,
\* under the pool lock, which it does not keep; it signals the display
\* server only when the window manager has exited; when it returns, both
\* processes have exited and the lock file does not name the server; it
\* sends SIGKILL only to a process that got SIGTERM and did not exit
\* within the timeout.  A release() of an id that is not in the pool, a
\* second release() of the same id included, changes nothing.
C34_Release ==
    [][\A p \in PoolProcs :
          /\ ReleaseEnters(p) =>
                /\ pool_lock = 0 /\ pool_lock' = 0
                /\ pool_displays'[pcall'[p].display] = <<>>
                /\ pool_displays[pcall'[p].display] = <<>> =>
                      /\ ReleaseReturns(p)
                      /\ UNCHANGED <<pool_displays, proc, lock_file>>
          /\ (pcall'[p].op = "release" /\ pcall'[p].xvfb # 0) =>
                /\ \A sig \in {"TERM", "KILL"} :
                      Sent(pcall'[p].xvfb, sig) =>
                         proc[pcall'[p].fluxbox].state = "exited"
                /\ \A k \in {pcall'[p].xvfb, pcall'[p].fluxbox} :
                      Sent(k, "KILL") =>
                         /\ proc[k].signals = <<"TERM">>
                         /\ proc[k].state = "alive"
                         /\ pcall[p].pc = "term_wait"
                /\ ReleaseReturns(p) =>
                      /\ proc'[pcall'[p].xvfb].state = "exited"
                      /\ proc'[pcall'[p].fluxbox].state = "exited"
                      /\ lock_file'[pcall'[p].display] # pcall'[p].xvfb]_vars

\* a release() has returned after it killed the window manager and then
\* terminated the display server, and a second release() of the same id
\* has returned
C34_Witness ==
    \E p, q \in PoolProcs :
       /\ p # q
       /\ pcall[p].op = "release" /\ pcall[p].pc = "returned"
       /\ pcall[p].xvfb # 0
       /\ proc[pcall[p].fluxbox].signals = <<"TERM", "KILL">>
       /\ proc[pcall[p].xvfb].signals = <<"TERM">>
       /\ pcall[q].op = "release" /\ pcall[q].pc = "returned"
       /\ pcall[q].xvfb = 0 /\ pcall[q].display = pcall[p].display


(* ------------------------------- C35 ---------------------------------- *)

\* allocate() of call p returns a display id in this step
AllocateReturns(p) ==
    /\ pcall'[p].op = "allocate"
    /\ pcall'[p].pc = "returned" /\ pcall[p].pc # "returned"

\* the display servers the pool started on display d before server k
Earlier(d, k) ==
    {j \in Pids : proc[j].kind = "Xvfb" /\ proc[j].display = d /\ j < k}

\* C35: allocate() does not return a display id while a display server
\* that this pool started earlier on that id is still running, whatever
\* the interleaving of release() and allocate().
C35_NoReuseWhileRunning ==
    [][\A p \in PoolProcs :
          AllocateReturns(p) =>
             \A j \in Earlier(pcall'[p].ret, pcall'[p].xvfb) :
                proc'[j].state # "alive"]_vars


(* ------------------------------- C36 ---------------------------------- *)

\* C36: every unit that push() or flush() has returned is at least 5
\* bytes long, a 4-byte start code and the header byte that nal_type
\* reads, whatever the input.
C36_MinUnitLength ==
    \A i \in 1..Len(results) : Len(results[i]) >= 5


(* ------------------------------- C37 ---------------------------------- *)

\* C37: once a stop() that was not a no-op has returned, and until
\* start() is called again, the status is stopped, no encoder process is
\* alive and no broadcast task is running, also when that stop()
\* overlapped a start() that was still in progress.
C37_StopLeavesStopped ==
    stopRet = starts =>
       /\ status = "stopped"
       /\ ffProc # "alive"
       /\ task \notin {"running", "cancelling"}


(* ------------------------------- C38 ---------------------------------- *)

\* start() raises in this step because the encoder could not be spawned
SpawnRaises == startPc = "spawning" /\ startPc' = "idle" /\ ffProc' # "alive"

\* C38: when start() raises because the encoder cannot be spawned, the
\* session has no encoder process and no broadcast task, and its status is
\* one from which start() is legal again: created or stopped.
C38_FailedStart ==
    [][SpawnRaises =>
          /\ ffProc' # "alive"
          /\ task' \notin {"running", "cancelling"}
          /\ status' \in {"created", "stopped"}]_vars


(* ------------------------------- C39 ---------------------------------- *)

\* subscriber c registers in this step
Joins(c) == sub[c].pc = "idle" /\ sub'[c].pc # "idle"

\* the units of s that the current encoder run has emitted
OfThisRun(s) == \A i \in 1..Len(s) : s[i].id > runAt

\* C39: after a stop() followed by a start(), the snapshot that a new
\* subscriber is handed, and every unit it is given later, the SPS and PPS
\* injected in sync-up mode included, are units of the current encoder
\* run: the GOP cache and the last SPS and PPS of the previous run are not
\* served.
C39_NoStaleCache ==
    [][\A c \in Clients :
          (starts > 1 /\ task = "running" /\ task' = "running") =>
             /\ Joins(c) => OfThisRun(snap'[c])
             /\ (joinAt[c] >= runAt /\ Joined(c)) =>
                   OfThisRun(SubSeq(received'[c], Len(received[c]) + 1,
                                    Len(received'[c])))]_vars


(* ------------------------------- C40 ---------------------------------- *)

\* C40: an iterator of subscribe() that is registered on a session whose
\* stop() has completed eventually ends, without its caller abandoning it.
C40_LateSubscriberEnds ==
    \A c \in Clients :
       (status = "stopped" /\ Registered(c)) ~> (sub[c].pc = "done")
====
